---- MODULE Spec2Model ----
(***************************************************************************)
(* NSQL front end: lexer, recursive-descent parser, AST, binary codec and  *)
(* execution-metadata classifier, modelled from src/src/lexer.c,           *)
(* src/src/parser.c and src/src/ast_serializer.c.                          *)
(*                                                                         *)
(* Representation choices                                                  *)
(*  - a character is its ASCII code, a C string a sequence of codes; the   *)
(*    terminating NUL is the position one past the end of the sequence;    *)
(*  - a pointer into the source is a 0-based offset;                       *)
(*  - a byte is a number in 0..255 and a buffer a sequence of bytes;       *)
(*  - a uint32_t held in memory is its four bytes, least significant       *)
(*    first (the codec writes the host representation; the wire format is  *)
(*    little-endian), so that values above 2^31 stay representable;        *)
(*  - an absent child pointer is the record Null.                          *)
(***************************************************************************)
EXTENDS Integers, Sequences, FiniteSets, TLC

(***************************************************************************)
(* Bit operations on fixed-width unsigned integers                         *)
(***************************************************************************)
RECURSIVE XorN(_, _, _)
XorN(a, b, n) ==
    IF n = 0 THEN 0
    ELSE (((a % 2) + (b % 2)) % 2) + 2 * XorN(a \div 2, b \div 2, n - 1)

RECURSIVE AndN(_, _, _)
AndN(a, b, n) ==
    IF n = 0 THEN 0
    ELSE ((a % 2) * (b % 2)) + 2 * AndN(a \div 2, b \div 2, n - 1)

RECURSIVE OrN(_, _, _)
OrN(a, b, n) ==
    IF n = 0 THEN 0
    ELSE (IF (a % 2) + (b % 2) > 0 THEN 1 ELSE 0) + 2 * OrN(a \div 2, b \div 2, n - 1)

Byte == 0..255

XorTable == [a \in Byte |-> [b \in Byte |-> XorN(a, b, 8)]]

XorByte(a, b) == XorTable[a][b]

\* a 32-bit value as four bytes, least significant first (n < 2^31)
U32(n) == << n % 256, (n \div 256) % 256, (n \div 65536) % 256, (n \div 16777216) % 256 >>

U16(n) == << n % 256, (n \div 256) % 256 >>

\* the number four little-endian bytes stand for, when it is below 2^31
U32Val(b) == b[1] + 256 * b[2] + 65536 * b[3] + 16777216 * b[4]

U16Val(b) == b[1] + 256 * b[2]

\* unsigned comparison a > b of two 32-bit values given as bytes
U32Gt(a, b) ==
    \E i \in 1..4 : a[i] > b[i] /\ \A j \in (i + 1)..4 : a[j] = b[j]

Xor32(a, b) ==
    << XorByte(a[1], b[1]), XorByte(a[2], b[2]), XorByte(a[3], b[3]), XorByte(a[4], b[4]) >>

\* c >> 1 on a 32-bit value
Shr1(c) ==
    << (c[1] \div 2) + 128 * (c[2] % 2), (c[2] \div 2) + 128 * (c[3] % 2),
       (c[3] \div 2) + 128 * (c[4] % 2), c[4] \div 2 >>

\* c >> 8 on a 32-bit value
Shr8(c) == << c[2], c[3], c[4], 0 >>

(***************************************************************************)
(* CRC32 (ast_serializer.c)                                                *)
(***************************************************************************)
CRC32_POLY == << 32, 131, 184, 237 >>       \* 0xEDB88320

ALL_ONES32 == << 255, 255, 255, 255 >>      \* 0xFFFFFFFF

RECURSIVE crc32_entry(_, _)
crc32_entry(c, k) ==
    IF k = 0 THEN c
    ELSE crc32_entry(IF c[1] % 2 = 1 THEN Xor32(CRC32_POLY, Shr1(c)) ELSE Shr1(c), k - 1)

make_crc32_table == [n \in Byte |-> crc32_entry(<< n, 0, 0, 0 >>, 8)]

crc32_table == make_crc32_table

\* the loop of calculate_crc32 over buf[lo..hi], entered with crc = c; the
\* range is split in halves, and c is inspected first, so that the
\* evaluation stays shallow
RECURSIVE crc32_loop(_, _, _, _)
crc32_loop(buf, lo, hi, c) ==
    IF Len(c) # 4 \/ lo > hi THEN c
    ELSE IF lo = hi THEN Xor32(crc32_table[XorByte(c[1], buf[lo])], Shr8(c))
    ELSE LET mid == (lo + hi) \div 2
         IN  crc32_loop(buf, mid + 1, hi, crc32_loop(buf, lo, mid, c))

\* calculate_crc32 with the loop started at the second byte
calculate_crc32_from_second(buf) ==
    Xor32(crc32_loop(buf, 2, Len(buf), ALL_ONES32), ALL_ONES32)

calculate_crc32(buf) == Xor32(crc32_loop(buf, 1, Len(buf), ALL_ONES32), ALL_ONES32)

(***************************************************************************)
(* Characters and strings                                                  *)
(***************************************************************************)
NUL == 0

\* the element of a one-element set: The({ e(r) : r \in {v} }) is e(v), with
\* v computed once
The(S) == CHOOSE x \in S : TRUE

\* A character is written as its ASCII code: 65..90 are A..Z, 97..122 a..z,
\* 48..57 the digits, 32 the space, 10 the newline.

\* the character at a 0-based offset of a NUL-terminated string
CharAt(s, k) == IF k < Len(s) THEN s[k + 1] ELSE NUL

\* memcmp(s + off, rest, Len(rest)) == 0
MemEq(s, off, rest) == \A i \in 1..Len(rest) : CharAt(s, off + i - 1) = rest[i]

(***************************************************************************)
(* Lexer (lexer.c)                                                         *)
(***************************************************************************)
lexer_init(source) == [source |-> source, start |-> 0, current |-> 0, line |-> 1]

is_at_end(lexer) == CharAt(lexer.source, lexer.current) = NUL

make_token(lexer, type) ==
    [type |-> type, start |-> lexer.start, length |-> lexer.current - lexer.start,
     line |-> lexer.line, msg |-> ""]

\* strlen of the two static diagnostics
StaticLen(message) ==
    CASE message = "Unterminated string." -> 20
      [] message = "Unexpected character." -> 21
      [] OTHER -> 0

\* the token points at the static message, not into the source (start = -1)
error_token(lexer, message) ==
    [type |-> "TOKEN_ERROR", start |-> -1, length |-> StaticLen(message),
     line |-> lexer.line, msg |-> message]

lex_advance(lexer) == [lexer EXCEPT !.current = @ + 1]

peek(lexer) == CharAt(lexer.source, lexer.current)

peek_next(lexer) == IF is_at_end(lexer) THEN NUL ELSE CharAt(lexer.source, lexer.current + 1)

RECURSIVE skip_comment(_)
skip_comment(lexer) ==
    The({ IF peek(l) # 10 /\ ~is_at_end(l) THEN skip_comment(lex_advance(l)) ELSE l
          : l \in {lexer} })

RECURSIVE skip_whitespace(_)
skip_whitespace(lexer) ==
    The({ CASE c \in {32, 13, 9} -> skip_whitespace(lex_advance(l))
            [] c = 10 -> skip_whitespace(lex_advance([l EXCEPT !.line = @ + 1]))
            [] c = 62 /\ peek_next(l) = 62 ->
                  skip_whitespace(skip_comment(lex_advance(lex_advance(l))))
            [] OTHER -> l
          : c \in {peek(lexer)}, l \in {lexer} })

is_digit(c) == c >= 48 /\ c <= 57

is_alpha(c) == (c >= 97 /\ c <= 122) \/ (c >= 65 /\ c <= 90) \/ c = 95

is_alnum(c) == is_alpha(c) \/ is_digit(c)

check_keyword(lexer, start, rest, type) ==
    IF lexer.current - lexer.start = start + Len(rest)
       /\ MemEq(lexer.source, lexer.start + start, rest)
    THEN type ELSE "TOKEN_IDENTIFIER"

\* the rest of each keyword is written as its character codes
identifier_type(lexer) ==
    LET n == lexer.current - lexer.start
        c0 == CharAt(lexer.source, lexer.start)
        c1 == CharAt(lexer.source, lexer.start + 1)
        c2 == CharAt(lexer.source, lexer.start + 2)
        c3 == CharAt(lexer.source, lexer.start + 3)
        c4 == CharAt(lexer.source, lexer.start + 4)
        kw(start, rest, type) == check_keyword(lexer, start, rest, type)
    IN
    IF n <= 1 THEN "TOKEN_IDENTIFIER"
    ELSE
    CASE c0 = 65 /\ c1 = 83 ->
            IF n = 2 THEN "TOKEN_AS" ELSE kw(2, <<75>>, "TOKEN_ASK")
      [] c0 = 65 /\ c1 = 78 -> kw(2, <<68>>, "TOKEN_AND")
      [] c0 = 65 /\ c1 = 68 -> kw(2, <<68>>, "TOKEN_ADD")
      [] c0 = 66 /\ c1 = 89 -> kw(2, <<>>, "TOKEN_BY")
      [] c0 = 67 /\ c1 = 82 -> kw(2, <<69, 65, 84, 69>>, "TOKEN_CREATE")
      [] c0 = 70 /\ c1 = 73 -> kw(2, <<78, 68>>, "TOKEN_FIND")
      [] c0 = 70 /\ c1 = 79 -> kw(2, <<82>>, "TOKEN_FOR")
      [] c0 = 70 /\ c1 = 82 -> kw(2, <<79, 77>>, "TOKEN_FROM")
      [] c0 = 71 /\ c1 = 69 -> kw(2, <<84>>, "TOKEN_GET")
      [] c0 = 71 /\ c1 = 82 -> kw(2, <<79, 85, 80>>, "TOKEN_GROUP")
      [] c0 = 72 /\ c1 = 65 -> kw(2, <<86, 73, 78, 71>>, "TOKEN_HAVING")
      [] c0 = 76 /\ c1 = 73 ->
            IF n = 4 /\ c2 = 75 /\ c3 = 69 THEN "TOKEN_LIKE"
            ELSE IF n = 5 /\ c2 = 77 /\ c3 = 73 /\ c4 = 84 THEN "TOKEN_LIMIT"
            ELSE "TOKEN_IDENTIFIER"
      [] c0 = 78 /\ c1 = 79 -> kw(2, <<84>>, "TOKEN_NOT")
      [] c0 = 79 /\ c1 = 82 ->
            IF n = 2 THEN "TOKEN_OR" ELSE kw(2, <<68, 69, 82>>, "TOKEN_ORDER")
      [] c0 = 80 /\ c1 = 76 -> kw(2, <<69, 65, 83, 69>>, "TOKEN_TERMINATOR")
      [] c0 = 82 /\ c1 = 69 -> kw(2, <<77, 79, 86, 69>>, "TOKEN_REMOVE")
      [] c0 = 83 /\ c1 = 72 -> kw(2, <<79, 87>>, "TOKEN_SHOW")
      [] c0 = 83 /\ c1 = 79 -> kw(2, <<82, 84>>, "TOKEN_SORT")
      [] c0 = 84 /\ c1 = 69 -> kw(2, <<76, 76>>, "TOKEN_TELL")
      [] c0 = 84 /\ c1 = 72 -> kw(2, <<65, 84>>, "TOKEN_THAT")
      [] c0 = 84 /\ c1 = 79 -> kw(2, <<>>, "TOKEN_TO")
      [] c0 = 85 /\ c1 = 80 -> kw(2, <<68, 65, 84, 69>>, "TOKEN_UPDATE")
      [] c0 = 87 /\ c1 = 72 /\ n > 2 /\ c2 = 69 -> kw(3, <<82, 69>>, "TOKEN_WHERE")
      [] c0 = 87 /\ c1 = 72 /\ n > 2 /\ c2 = 78 -> kw(3, <<>>, "TOKEN_WHEN")
      [] c0 = 87 /\ c1 = 72 /\ n > 2 /\ c2 = 73 -> kw(3, <<67, 72>>, "TOKEN_WHICH")
      [] c0 = 87 /\ c1 = 73 -> kw(2, <<84, 72>>, "TOKEN_WITH")
      [] OTHER -> "TOKEN_IDENTIFIER"

RECURSIVE scan_alnum(_)
scan_alnum(lexer) ==
    The({ IF is_alnum(peek(l)) THEN scan_alnum(lex_advance(l)) ELSE l : l \in {lexer} })

identifier(lexer) ==
    The({ [lexer |-> l, token |-> make_token(l, identifier_type(l))]
          : l \in {scan_alnum(lexer)} })

RECURSIVE scan_digits(_)
scan_digits(lexer) ==
    The({ IF is_digit(peek(l)) THEN scan_digits(lex_advance(l)) ELSE l : l \in {lexer} })

number(lexer) ==
    The({ IF peek(l1) = 46 /\ is_digit(peek_next(l1))
          THEN The({ [lexer |-> l2, token |-> make_token(l2, "TOKEN_DECIMAL")]
                     : l2 \in {scan_digits(lex_advance(l1))} })
          ELSE [lexer |-> l1, token |-> make_token(l1, "TOKEN_INTEGER")]
          : l1 \in {scan_digits(lexer)} })

\* a scan that stops at either quote character
RECURSIVE scan_string_either(_, _)
scan_string_either(lexer, quote) ==
    The({ IF peek(l) \notin {34, 39} /\ ~is_at_end(l)
          THEN scan_string_either(lex_advance(IF peek(l) = 10
                                              THEN [l EXCEPT !.line = @ + 1] ELSE l), quote)
          ELSE l
          : l \in {lexer} })

RECURSIVE scan_string(_, _)
scan_string(lexer, quote) ==
    The({ IF peek(l) # q /\ ~is_at_end(l)
          THEN scan_string(lex_advance(IF peek(l) = 10
                                       THEN [l EXCEPT !.line = @ + 1] ELSE l), q)
          ELSE l
          : l \in {lexer}, q \in {quote} })

string(lexer) ==
    The({ IF is_at_end(l1)
          THEN [lexer |-> l1, token |-> error_token(l1, "Unterminated string.")]
          ELSE The({ [lexer |-> l2, token |-> make_token(l2, "TOKEN_STRING")]
                     : l2 \in {lex_advance(l1)} })
          : l1 \in {scan_string(lexer, CharAt(lexer.source, lexer.start))} })

\* lexer_next_token from the point where whitespace is skipped and
\* lexer->start is set: l0 is the lexer there, l1 the lexer after advance()
scan_token(l0, l1) ==
    LET c == peek(l0)
        one(type) == [lexer |-> l1, token |-> make_token(l1, type)]
        two(type) == [lexer |-> lex_advance(l1), token |-> make_token(lex_advance(l1), type)]
    IN
    IF is_at_end(l0) THEN [lexer |-> l0, token |-> make_token(l0, "TOKEN_EOF")]
    ELSE IF is_alpha(c) THEN identifier(l1)
    ELSE IF is_digit(c) THEN number(l1)
    ELSE
    CASE c = 40 -> one("TOKEN_LPAREN")
      [] c = 41 -> one("TOKEN_RPAREN")
      [] c = 44 -> one("TOKEN_COMMA")
      [] c = 61 -> one("TOKEN_EQUAL")
      [] c = 60 -> IF peek(l1) = 61 THEN two("TOKEN_LTE") ELSE one("TOKEN_LT")
      [] c = 62 -> IF peek(l1) = 61 THEN two("TOKEN_GTE") ELSE one("TOKEN_GT")
      [] c = 33 -> IF peek(l1) = 61 THEN two("TOKEN_NEQ") ELSE one("TOKEN_ERROR")
      [] c = 43 -> one("TOKEN_PLUS")
      [] c = 45 -> one("TOKEN_MINUS")
      [] c = 42 -> one("TOKEN_STAR")
      [] c = 47 -> one("TOKEN_SLASH")
      [] c = 37 -> one("TOKEN_PERCENT")
      [] c \in {34, 39} -> string(l1)
      [] c = 59 -> one("TOKEN_TERMINATOR")
      [] OTHER -> [lexer |-> l1, token |-> error_token(l1, "Unexpected character.")]

\* a call that reports the character under the cursor and stays on it
lexer_next_token_stuck(lexer0) ==
    [lexer |-> lexer0, token |-> error_token(lexer0, "Unexpected character.")]

lexer_next_token(lexer0) ==
    The({ The({ scan_token(l0, lex_advance(l0))
                : l0 \in {[ws EXCEPT !.start = ws.current]} })
          : ws \in {skip_whitespace(lexer0)} })

\* the characters a source token spans
TokenText(source, token) == SubSeq(source, token.start + 1, token.start + token.length)

(***************************************************************************)
(* AST nodes (ast.h).  create_node zero-fills the node, so every child     *)
(* starts absent, every count 0 and every string NULL.                     *)
(***************************************************************************)
Null == [type |-> "NULL"]

\* a nullable char*: NULL, or the characters before the terminating NUL
NullStr == [null |-> TRUE, s |-> << >>]

CStr(s) == [null |-> FALSE, s |-> s]

\* the value of a numeric literal: integer part and fractional digits
Num(ip, fp) == [ip |-> ip, fp |-> fp]

create_node(type) ==
    CASE type \in {"NODE_ASK_QUERY", "NODE_SHOW_QUERY", "NODE_GET_QUERY"} ->
            [type |-> type, addr |-> 0, line |-> 0, source |-> Null, fields |-> Null, condition |-> Null,
             group_by |-> Null, order_by |-> Null, limit |-> Null]
      [] type = "NODE_TELL_QUERY" ->
            [type |-> type, addr |-> 0, line |-> 0, source |-> Null, action |-> Null, condition |-> Null]
      [] type = "NODE_FIND_QUERY" ->
            [type |-> type, addr |-> 0, line |-> 0, source |-> Null, condition |-> Null,
             group_by |-> Null, order_by |-> Null, limit |-> Null]
      [] type = "NODE_FIELD_LIST" -> [type |-> type, addr |-> 0, line |-> 0, fields |-> << >>]
      [] type = "NODE_SOURCE" -> [type |-> type, addr |-> 0, line |-> 0, identifier |-> Null, join |-> Null]
      [] type = "NODE_JOIN" -> [type |-> type, addr |-> 0, line |-> 0, source |-> Null, condition |-> Null]
      [] type = "NODE_GROUP_BY" -> [type |-> type, addr |-> 0, line |-> 0, fields |-> Null, having |-> Null]
      [] type = "NODE_ORDER_BY" ->
            [type |-> type, addr |-> 0, line |-> 0, fields |-> << >>, ascending |-> << >>]
      [] type = "NODE_LIMIT" -> [type |-> type, addr |-> 0, line |-> 0, limit |-> 0, offset |-> 0]
      [] type = "NODE_ADD_ACTION" ->
            [type |-> type, addr |-> 0, line |-> 0, value |-> Null, record_spec |-> Null]
      [] type = "NODE_REMOVE_ACTION" -> [type |-> type, addr |-> 0, line |-> 0, condition |-> Null]
      [] type = "NODE_UPDATE_ACTION" ->
            [type |-> type, addr |-> 0, line |-> 0, fields |-> << >>, values |-> << >>]
      [] type = "NODE_CREATE_ACTION" -> [type |-> type, addr |-> 0, line |-> 0, field_defs |-> << >>]
      [] type = "NODE_BINARY_EXPR" ->
            [type |-> type, addr |-> 0, line |-> 0, left |-> Null, right |-> Null, op |-> "TOKEN_ASK"]
      [] type = "NODE_UNARY_EXPR" ->
            [type |-> type, addr |-> 0, line |-> 0, operand |-> Null, op |-> "TOKEN_ASK"]
      [] type = "NODE_IDENTIFIER" -> [type |-> type, addr |-> 0, line |-> 0, name |-> << >>, length |-> 0]
      [] type = "NODE_LITERAL" ->
            [type |-> type, addr |-> 0, line |-> 0, literal_type |-> "TOKEN_ASK",
             string_value |-> << >>, number_value |-> Num(0, << >>)]
      [] type = "NODE_FIELD_DEF" ->
            [type |-> type, addr |-> 0, line |-> 0, name |-> Null, type_name |-> NullStr,
             constraints |-> << >>]
      [] type = "NODE_CONSTRAINT" ->
            [type |-> type, addr |-> 0, line |-> 0, ctype |-> "CONSTRAINT_REQUIRED",
             default_value |-> Null]
      [] type = "NODE_FUNCTION_CALL" ->
            [type |-> type, addr |-> 0, line |-> 0, name |-> << >>, args |-> << >>]
      [] type = "NODE_ERROR" -> [type |-> type, addr |-> 0, line |-> 0, message |-> NullStr]
      [] type = "NODE_PROGRAM" -> [type |-> type, addr |-> 0, line |-> 0, statements |-> << >>]

(***************************************************************************)
(* Parser utilities (parser.c).  The parser state p carries the lexer it   *)
(* points to.  Besides the program's fields it records                     *)
(*   recovery  whether the build defines ENABLE_SYNC_RECOVERY,             *)
(*   stderr    the diagnostics error_at prints, in order,                  *)
(*   sync_log  for each printed diagnostic, the parser state error_at      *)
(*             leaves behind,                                              *)
(*   crashed   a null pointer was dereferenced,                            *)
(*   frames    the (lexer cursor, current token) pairs at which the active *)
(*             parse_function_call frames were entered,                    *)
(*   diverged  a frame was entered in the state of an active frame: the    *)
(*             recursion repeats for ever and the call never returns,      *)
(*   rewinds   for each assignment parse_primary makes to lexer->current,  *)
(*             the cursor before it, the cursor after it and lexer->line,  *)
(*   nodes     the number of nodes create_node has handed out,             *)
(*   freed     the addresses the parser has passed to free, in order.      *)
(***************************************************************************)

\* parser->current before the first advance: an indeterminate value that is
\* copied into previous by parser_init and overwritten before it is read
UninitToken == [type |-> "TOKEN_UNINIT", start |-> -1, length |-> 0, line |-> 0, msg |-> ""]

QueryStart == {"TOKEN_ASK", "TOKEN_TELL", "TOKEN_FIND", "TOKEN_SHOW", "TOKEN_GET"}

check(p, type) == p.current.type = type

\* one stderr line of error_at
ErrLine(source, token, message, at) ==
    [line |-> token.line,
     where |-> IF token.type = "TOKEN_EOF" THEN "end"
               ELSE IF token.type = "TOKEN_ERROR" THEN "none" ELSE "token",
     text |-> IF token.type \in {"TOKEN_EOF", "TOKEN_ERROR"} THEN << >>
              ELSE TokenText(source, token),
     message |-> message, message_at |-> at]

RECURSIVE advance(_)
RECURSIVE advance_loop(_)
RECURSIVE error_at(_, _, _, _)
RECURSIVE synchronize(_)
RECURSIVE synchronize_loop(_)

\* message is a static string, or "" with at the source offset it points to
error_at(p, token, message, at) ==
    IF p.panic_mode THEN p
    ELSE
    The({ [p2 EXCEPT !.sync_log =
                Append(@, [type |-> p2.current.type, had_error |-> p2.had_error,
                           panic_mode |-> p2.panic_mode,
                           cursor_before |-> p.lexer.current,
                           cursor_after |-> p2.lexer.current,
                           same_token |-> p2.current = p.current])]
          : p2 \in {synchronize(
                [p EXCEPT !.panic_mode = TRUE,
                          !.error = [message |-> message, message_at |-> at,
                                     line |-> token.line, panic_mode |-> TRUE],
                          !.had_error = TRUE,
                          !.stderr = Append(@, ErrLine(p.lexer.source, token,
                                                       message, at))])} })

error_at_current(p, message) == error_at(p, p.current, message, -1)

synchronize_loop(p) ==
    IF p.current.type # "TOKEN_EOF" /\ p.current.type \notin QueryStart
    THEN synchronize_loop(advance(p))
    ELSE p

\* synchronize that clears the error flag in either build
synchronize_clearing(p) ==
    [p EXCEPT !.panic_mode = FALSE, !.had_error = FALSE,
              !.error = [message |-> "", message_at |-> -1, line |-> 0, panic_mode |-> FALSE]]

\* synchronize that leaves the error flag set in either build
synchronize_keeping(p) == [p EXCEPT !.panic_mode = FALSE]

synchronize(p) ==
    IF p.recovery
    THEN synchronize_loop([p EXCEPT !.panic_mode = FALSE])
    ELSE [p EXCEPT !.panic_mode = FALSE, !.had_error = FALSE,
                   !.error = [message |-> "", message_at |-> -1,
                              line |-> 0, panic_mode |-> FALSE]]

advance_loop(p) ==
    The({ IF r.token.type # "TOKEN_ERROR"
          THEN [p EXCEPT !.lexer = r.lexer, !.current = r.token]
          ELSE advance_loop(error_at([p EXCEPT !.lexer = r.lexer, !.current = r.token],
                                     r.token, r.token.msg,
                                     IF r.token.msg = "" THEN r.token.start ELSE -1))
          : r \in {lexer_next_token(p.lexer)} })

advance(p) == advance_loop([p EXCEPT !.previous = p.current])

match(p, type) ==
    IF ~check(p, type) THEN [p |-> p, ok |-> FALSE] ELSE [p |-> advance(p), ok |-> TRUE]

\* match(a) || match(b) || ...: the first alternative that matches consumes
match_any(p, types) ==
    IF p.current.type \in types THEN [p |-> advance(p), ok |-> TRUE]
    ELSE [p |-> p, ok |-> FALSE]

consume(p, type, message) ==
    IF p.current.type = type THEN advance(p) ELSE error_at_current(p, message)

copy_token_string(p, token) == TokenText(p.lexer.source, token)

\* strtol(token.start, &end, 10) on the digits of a number token
RECURSIVE DigitsVal(_)
DigitsVal(ds) ==
    IF Len(ds) = 0 THEN 0
    ELSE 10 * DigitsVal(SubSeq(ds, 1, Len(ds) - 1)) + (ds[Len(ds)] - 48)

RECURSIVE LeadingDigits(_)
LeadingDigits(s) ==
    IF Len(s) > 0 /\ is_digit(s[1]) THEN << s[1] >> \o LeadingDigits(Tail(s)) ELSE << >>

strtol(p, token) ==
    DigitsVal(LeadingDigits(SubSeq(p.lexer.source, token.start + 1, Len(p.lexer.source))))

\* strtod(token.start, &end) on a DECIMAL token: digits '.' digits
strtod(p, token) ==
    LET rest == SubSeq(p.lexer.source, token.start + 1, Len(p.lexer.source))
        ip == LeadingDigits(rest)
        after == SubSeq(rest, Len(ip) + 1, Len(rest))
    IN  IF Len(after) > 0 /\ after[1] = 46
        THEN Num(DigitsVal(ip), LeadingDigits(Tail(after)))
        ELSE Num(DigitsVal(ip), << >>)

parser_init(lexer, recovery) ==
    advance([lexer |-> lexer, current |-> UninitToken, previous |-> UninitToken,
             had_error |-> FALSE, panic_mode |-> FALSE,
             error |-> [message |-> "", message_at |-> -1, line |-> 0, panic_mode |-> FALSE],
             recovery |-> recovery, stderr |-> << >>, sync_log |-> << >>,
             crashed |-> FALSE, frames |-> {}, diverged |-> FALSE, rewinds |-> {},
             nodes |-> 0, freed |-> << >>])

(***************************************************************************)
(* Expressions (parser.c).  Every parse function returns the parser state  *)
(* it leaves and the node it built.                                        *)
(***************************************************************************)
RECURSIVE parse_expression(_)
RECURSIVE parse_logic_or(_)
RECURSIVE logic_or_loop(_, _, _)
RECURSIVE parse_logic_and(_)
RECURSIVE logic_and_loop(_, _, _)
RECURSIVE parse_equality(_)
RECURSIVE equality_loop(_, _, _)
RECURSIVE parse_comparison(_)
RECURSIVE comparison_loop(_, _, _)
RECURSIVE parse_term(_)
RECURSIVE term_loop(_, _, _)
RECURSIVE parse_factor(_)
RECURSIVE factor_loop(_, _, _)
RECURSIVE parse_unary(_)
RECURSIVE parse_primary(_)
RECURSIVE parse_function_call(_)
RECURSIVE function_args_loop(_, _)
RECURSIVE function_args(_)

\* the nodes a node points to, as struct Node declares them, in the order of
\* their declaration
Referenced(node) ==
    CASE node.type \in {"NODE_ASK_QUERY", "NODE_SHOW_QUERY", "NODE_GET_QUERY"} ->
            << node.source, node.fields, node.condition, node.group_by, node.order_by,
               node.limit >>
      [] node.type = "NODE_TELL_QUERY" -> << node.source, node.action, node.condition >>
      [] node.type = "NODE_FIND_QUERY" ->
            << node.source, node.condition, node.group_by, node.order_by, node.limit >>
      [] node.type \in {"NODE_FIELD_LIST", "NODE_ORDER_BY"} -> node.fields
      [] node.type = "NODE_SOURCE" -> << node.identifier, node.join >>
      [] node.type = "NODE_JOIN" -> << node.source, node.condition >>
      [] node.type = "NODE_GROUP_BY" -> << node.fields, node.having >>
      [] node.type = "NODE_ADD_ACTION" -> << node.value, node.record_spec >>
      [] node.type = "NODE_REMOVE_ACTION" -> << node.condition >>
      [] node.type = "NODE_UPDATE_ACTION" -> node.fields \o node.values
      [] node.type = "NODE_CREATE_ACTION" -> node.field_defs
      [] node.type = "NODE_BINARY_EXPR" -> << node.left, node.right >>
      [] node.type = "NODE_UNARY_EXPR" -> << node.operand >>
      [] node.type = "NODE_FUNCTION_CALL" -> node.args
      [] node.type = "NODE_FIELD_DEF" -> << node.name >> \o node.constraints
      [] node.type = "NODE_CONSTRAINT" -> << node.default_value >>
      [] OTHER -> << >>

\* free_node, as the addresses it hands to free(node), in order
RECURSIVE free_node(_)
RECURSIVE free_nodes(_)
RECURSIVE free_pairs(_, _)
\* a free_node that releases the right operand of a binary node twice
free_node_twice(node) ==
    IF node = Null THEN << >>
    ELSE IF node.type = "NODE_BINARY_EXPR"
    THEN free_node(node.left) \o free_node(node.right) \o free_node(node.right)
         \o << node.addr >>
    ELSE free_nodes(Referenced(node)) \o << node.addr >>

free_node(node) ==
    IF node = Null THEN << >>
    ELSE (CASE node.type \in {"NODE_ASK_QUERY", "NODE_SHOW_QUERY", "NODE_GET_QUERY"} ->
                  free_nodes(<< node.source, node.fields, node.condition, node.group_by,
                                node.order_by, node.limit >>)
            [] node.type = "NODE_TELL_QUERY" ->
                  free_nodes(<< node.source, node.action, node.condition >>)
            [] node.type = "NODE_FIND_QUERY" ->
                  free_nodes(<< node.source, node.condition, node.group_by, node.order_by,
                                node.limit >>)
            [] node.type = "NODE_FIELD_LIST" -> free_nodes(node.fields)
            [] node.type = "NODE_SOURCE" -> free_nodes(<< node.identifier, node.join >>)
            [] node.type = "NODE_JOIN" -> free_nodes(<< node.source, node.condition >>)
            [] node.type = "NODE_GROUP_BY" -> free_nodes(<< node.fields, node.having >>)
            [] node.type = "NODE_ORDER_BY" -> free_nodes(node.fields)
            [] node.type = "NODE_ADD_ACTION" ->
                  free_nodes(<< node.value, node.record_spec >>)
            [] node.type = "NODE_REMOVE_ACTION" -> free_nodes(<< node.condition >>)
            [] node.type = "NODE_UPDATE_ACTION" -> free_pairs(node.fields, node.values)
            [] node.type = "NODE_CREATE_ACTION" -> free_nodes(node.field_defs)
            [] node.type = "NODE_BINARY_EXPR" -> free_nodes(<< node.left, node.right >>)
            [] node.type = "NODE_UNARY_EXPR" -> free_nodes(<< node.operand >>)
            [] node.type = "NODE_FUNCTION_CALL" -> free_nodes(node.args)
            [] node.type = "NODE_FIELD_DEF" ->
                  free_nodes(<< node.name >>) \o free_nodes(node.constraints)
            [] node.type = "NODE_CONSTRAINT" -> free_nodes(<< node.default_value >>)
            [] OTHER -> << >>)
         \o << node.addr >>

free_nodes(nodes) ==
    IF nodes = << >> THEN << >> ELSE free_node(Head(nodes)) \o free_nodes(Tail(nodes))

\* free_node(fields[i]); free_node(values[i]) for each i
free_pairs(fields, values) ==
    IF fields = << >> THEN << >>
    ELSE free_node(Head(fields)) \o free_node(Head(values))
         \o free_pairs(Tail(fields), Tail(values))

\* create_node's malloc: the parser counts the nodes it has made, and a node's
\* addr is its number in that count (0 on a node no parser made)
Bump(p) == [p EXCEPT !.nodes = @ + 1]

Counted(p, made) == IF made THEN Bump(p) ELSE p

Numbered(node, made, p) == IF made THEN [node EXCEPT !.addr = p.nodes + 1] ELSE node

\* a function's result whose node it has made itself
Alloc(r) == [r EXCEPT !.p = Bump(r.p), !.node = Numbered(r.node, TRUE, r.p)]

parse_expression(p) == parse_logic_or(p)

parse_condition(p) == parse_expression(p)

\* the operator of a round that has none before its operand: the first
NoOp == "TOKEN_NONE"

\* Each binary level is "left = next(); while (match(ops)) { op = previous;
\* right = next(); left = binary(left, op, right) }".  A loop operator runs
\* one round: it parses one operand, joins it to left under op (the first
\* operand has no op and stands alone), then tests the loop condition.
\* the binary node with its operands exchanged
binary_expr_swapped(left, op, right, line) ==
    IF op = NoOp THEN right
    ELSE [create_node("NODE_BINARY_EXPR") EXCEPT
            !.line = line, !.left = right, !.right = left, !.op = op]

binary_expr(left, op, right, line) ==
    IF op = NoOp THEN right
    ELSE [create_node("NODE_BINARY_EXPR") EXCEPT
            !.line = line, !.left = left, !.right = right, !.op = op]

logic_or_loop(p, left, op) ==
    The({ The({ IF m.ok THEN logic_or_loop(m.p, node, m.p.previous.type)
                ELSE [p |-> m.p, node |-> node]
                : m \in {match(Counted(r.p, op # NoOp), "TOKEN_OR")},
                  node \in {Numbered(binary_expr(left, op, r.node, r.p.previous.line),
                                    op # NoOp, r.p)} })
          : r \in {parse_logic_and(p)} })

parse_logic_or(p) == logic_or_loop(p, Null, NoOp)

logic_and_loop(p, left, op) ==
    The({ The({ IF m.ok THEN logic_and_loop(m.p, node, m.p.previous.type)
                ELSE [p |-> m.p, node |-> node]
                : m \in {match(Counted(r.p, op # NoOp), "TOKEN_AND")},
                  node \in {Numbered(binary_expr(left, op, r.node, r.p.previous.line),
                                    op # NoOp, r.p)} })
          : r \in {parse_equality(p)} })

parse_logic_and(p) == logic_and_loop(p, Null, NoOp)

equality_loop(p, left, op) ==
    The({ The({ IF m.ok THEN equality_loop(m.p, node, m.p.previous.type)
                ELSE [p |-> m.p, node |-> node]
                : m \in {match_any(Counted(r.p, op # NoOp), {"TOKEN_EQUAL", "TOKEN_NEQ"})},
                  node \in {Numbered(binary_expr(left, op, r.node, r.p.previous.line),
                                    op # NoOp, r.p)} })
          : r \in {parse_comparison(p)} })

parse_equality(p) == equality_loop(p, Null, NoOp)

comparison_loop(p, left, op) ==
    The({ The({ IF m.ok THEN comparison_loop(m.p, node, m.p.previous.type)
                ELSE [p |-> m.p, node |-> node]
                : m \in {match_any(Counted(r.p, op # NoOp),
                                   {"TOKEN_LT", "TOKEN_LTE", "TOKEN_GT", "TOKEN_GTE"})},
                  node \in {Numbered(binary_expr(left, op, r.node, r.p.previous.line),
                                    op # NoOp, r.p)} })
          : r \in {parse_term(p)} })

parse_comparison(p) == comparison_loop(p, Null, NoOp)

term_loop(p, left, op) ==
    The({ The({ IF m.ok THEN term_loop(m.p, node, m.p.previous.type)
                ELSE [p |-> m.p, node |-> node]
                : m \in {match_any(Counted(r.p, op # NoOp), {"TOKEN_PLUS", "TOKEN_MINUS"})},
                  node \in {Numbered(binary_expr(left, op, r.node, r.p.previous.line),
                                    op # NoOp, r.p)} })
          : r \in {parse_factor(p)} })

parse_term(p) == term_loop(p, Null, NoOp)

\* binary->line = left->line dereferences left: a crash when left is absent
factor_loop(p, left, op) ==
    The({ The({ IF m.ok THEN factor_loop(m.p, node, m.p.previous.type)
                ELSE [p |-> m.p, node |-> node]
                : m \in {match_any(Counted([r.p EXCEPT
                                               !.crashed = @ \/ (op # NoOp /\ left = Null)],
                                           op # NoOp),
                                   {"TOKEN_STAR", "TOKEN_SLASH", "TOKEN_PERCENT"})},
                  node \in {Numbered(binary_expr(left, op, r.node,
                                                IF left = Null THEN 0 ELSE left.line),
                                    op # NoOp, r.p)} })
          : r \in {parse_unary(p)} })

parse_factor(p) == factor_loop(p, Null, NoOp)

parse_unary(p) ==
    The({ IF m.ok
          THEN The({ Alloc([p |-> r.p,
                      node |-> [create_node("NODE_UNARY_EXPR") EXCEPT
                                  !.line = r.p.previous.line, !.op = m.p.previous.type,
                                  !.operand = r.node]])
                     : r \in {parse_unary(m.p)} })
          ELSE parse_primary(p)
          : m \in {match_any(p, {"TOKEN_NOT", "TOKEN_MINUS"})} })

\* what the parse between two entries of parse_function_call depends on
FrameState(p) == << p.lexer.current, p.current.start, p.current.type >>

\* the node of a literal or identifier whose token p1 has just taken from p
primary_node(p, p1) ==
    CASE check(p, "TOKEN_STRING") ->
            [create_node("NODE_LITERAL") EXCEPT
                !.line = p1.previous.line, !.literal_type = "TOKEN_STRING",
                !.string_value = SubSeq(p.lexer.source, p1.previous.start + 2,
                                        p1.previous.start + p1.previous.length - 1)]
      [] check(p, "TOKEN_INTEGER") ->
            [create_node("NODE_LITERAL") EXCEPT
                !.line = p1.previous.line, !.literal_type = "TOKEN_INTEGER",
                !.number_value = Num(strtol(p1, p1.previous), << >>)]
      [] check(p, "TOKEN_DECIMAL") ->
            [create_node("NODE_LITERAL") EXCEPT
                !.line = p1.previous.line, !.literal_type = "TOKEN_DECIMAL",
                !.number_value = strtod(p1, p1.previous)]
      [] OTHER ->
            [create_node("NODE_IDENTIFIER") EXCEPT
                !.line = p.current.line, !.length = p.current.length,
                !.name = TokenText(p.lexer.source, p.current)]

\* The string, integer, decimal and identifier branches each begin by taking
\* the current token (match or advance); p1 is the parser after that.
parse_primary(p) ==
    IF p.current.type \in {"TOKEN_STRING", "TOKEN_INTEGER", "TOKEN_DECIMAL",
                           "TOKEN_IDENTIFIER"}
    THEN The({ IF check(p, "TOKEN_IDENTIFIER") /\ check(p1, "TOKEN_LPAREN")
               THEN \* the lexer goes back to the identifier, which becomes
                    \* current again
                    parse_function_call(
                        [p1 EXCEPT !.lexer.current = p.current.start,
                                   !.current = p.current,
                                   !.rewinds = @ \cup {[from |-> p1.lexer.current,
                                                        to |-> p.current.start,
                                                        line |-> p1.lexer.line]}])
               ELSE Alloc([p |-> p1, node |-> primary_node(p, p1)])
               : p1 \in {advance(p)} })
    ELSE IF check(p, "TOKEN_LPAREN")
    THEN The({ [p |-> consume(r.p, "TOKEN_RPAREN", "Expected ')' after expression"),
                node |-> r.node]
               : r \in {parse_expression(advance(p))} })
    ELSE [p |-> error_at_current(p, "Expected expression"), node |-> Null]

\* the arguments after the first: while (match(COMMA)) args += parse_expression()
function_args_loop(p, args) ==
    The({ IF ~m.ok THEN [p |-> m.p, args |-> args]
          ELSE The({ function_args_loop(r.p, Append(args, r.node))
                     : r \in {parse_expression(m.p)} })
          : m \in {match(p, "TOKEN_COMMA")} })

\* the argument list up to the closing parenthesis, p2 being the parser after
\* the opening one
function_args(p2) ==
    IF check(p2, "TOKEN_RPAREN") THEN [p |-> p2, args |-> << >>]
    ELSE The({ function_args_loop(r.p, << r.node >>) : r \in {parse_expression(p2)} })

\* parse_function_call; the frame bookkeeping detects a call entered in the
\* state of a call that is still active
parse_function_call(p0) ==
    IF FrameState(p0) \in p0.frames
    THEN [p |-> [p0 EXCEPT !.diverged = TRUE], node |-> Null]
    ELSE
    The({ Alloc([p |-> [consume(ra.p, "TOKEN_RPAREN", "Expected ')' after function arguments")
                    EXCEPT !.frames = p0.frames],
           node |-> [create_node("NODE_FUNCTION_CALL") EXCEPT
                       !.line = p0.current.line,
                       !.name = copy_token_string(p0, p0.current),
                       !.args = ra.args]])
          : ra \in {function_args(
                       consume(advance([p0 EXCEPT !.frames = @ \cup {FrameState(p0)}]),
                               "TOKEN_LPAREN", "Expected '(' after function name"))} })

(***************************************************************************)
(* Statement components (parser.c)                                         *)
(***************************************************************************)
\* the NODE_IDENTIFIER the parser builds from the current token
identifier_node(p) ==
    [create_node("NODE_IDENTIFIER") EXCEPT
        !.addr = p.nodes + 1,
        !.line = p.current.line, !.length = p.current.length,
        !.name = copy_token_string(p, p.current)]

RECURSIVE field_list_loop(_, _)
field_list_loop(p, fields) ==
    The({ IF ~m.ok THEN [p |-> m.p, fields |-> fields]
          ELSE IF check(m.p, "TOKEN_IDENTIFIER") \/ check(m.p, "TOKEN_STRING")
          THEN field_list_loop(advance(Bump(m.p)), Append(fields, identifier_node(m.p)))
          ELSE [p |-> error_at_current(m.p, "Expected identifier or string after comma"),
                fields |-> fields]
          : m \in {match(p, "TOKEN_COMMA")} })

parse_field_list(p) ==
    The({ Alloc([p |-> r.p,
           node |-> [create_node("NODE_FIELD_LIST") EXCEPT
                       !.line = p.previous.line, !.fields = r.fields]])
          : r \in {IF check(p, "TOKEN_IDENTIFIER") \/ check(p, "TOKEN_STRING")
                   THEN field_list_loop(advance(Bump(p)), << identifier_node(p) >>)
                   ELSE [p |-> error_at_current(p,
                                   "Expected identifier or string for field list"),
                         fields |-> << >>]} })

\* a clause that is parsed only when its keyword matched: m is the result of
\* the match, and the clause is absent when it failed
optional_condition(m) == IF m.ok THEN parse_condition(m.p) ELSE [p |-> m.p, node |-> Null]

RECURSIVE parse_source(_)
RECURSIVE parse_join(_)

parse_source(p) ==
    IF check(p, "TOKEN_IDENTIFIER") \/ check(p, "TOKEN_STRING")
    THEN The({ The({ Alloc([p |-> r.p,
                      node |-> [create_node("NODE_SOURCE") EXCEPT
                                  !.line = p.previous.line,
                                  !.identifier = identifier_node(p),
                                  !.join = r.node]])
                     : r \in {IF m.ok THEN parse_join(m.p)
                              ELSE [p |-> m.p, node |-> Null]} })
               : m \in {match_any(advance(Bump(p)), {"TOKEN_AND", "TOKEN_WITH"})} })
    ELSE Alloc([p |-> error_at_current(p, "Expected identifier or string for source"),
          node |-> [create_node("NODE_SOURCE") EXCEPT !.line = p.previous.line]])

parse_join(p) ==
    The({ The({ The({ Alloc([p |-> rc.p,
                       node |-> [create_node("NODE_JOIN") EXCEPT
                                   !.line = p.previous.line, !.source = rs.node,
                                   !.condition = rc.node]])
                      : rc \in {IF m.ok THEN parse_condition(m.p)
                                ELSE [p |-> error_at_current(m.p,
                                        "Expected 'WHEN' or 'WHERE' after join source"),
                                      node |-> Null]} })
                : m \in {match_any(rs.p, {"TOKEN_WHEN", "TOKEN_WHERE"})} })
          : rs \in {parse_source(p)} })

parse_group_by(p) ==
    The({ The({ Alloc([p |-> rh.p,
                 node |-> [create_node("NODE_GROUP_BY") EXCEPT
                             !.line = p.previous.line, !.fields = rf.node,
                             !.having = rh.node]])
                : rh \in {optional_condition(match(rf.p, "TOKEN_HAVING"))} })
          : rf \in {parse_field_list(p)} })

\* one sort field: the identifier, then an optional ASC or DESC
order_by_field(p) ==
    The({ IF ~m.ok THEN [p |-> m.p, field |-> identifier_node(p), ascending |-> TRUE]
          ELSE IF TokenText(p.lexer.source, m.p.previous) = <<65, 83, 67>>   \* ASC
          THEN [p |-> m.p, field |-> identifier_node(p), ascending |-> TRUE]
          ELSE IF TokenText(p.lexer.source, m.p.previous) = <<68, 69, 83, 67>>   \* DESC
          THEN [p |-> m.p, field |-> identifier_node(p), ascending |-> FALSE]
          ELSE [p |-> error_at_current(m.p, "Expected 'ASC', 'DESC', or ','"),
                field |-> identifier_node(p), ascending |-> TRUE]
          : m \in {match(advance(Bump(p)), "TOKEN_IDENTIFIER")} })

RECURSIVE order_by_loop(_, _, _)
order_by_loop(p, fields, ascending) ==
    The({ IF ~m.ok THEN [p |-> m.p, fields |-> fields, ascending |-> ascending]
          ELSE IF check(m.p, "TOKEN_IDENTIFIER")
          THEN The({ order_by_loop(r.p, Append(fields, r.field),
                                   Append(ascending, r.ascending))
                     : r \in {order_by_field(m.p)} })
          ELSE [p |-> error_at_current(m.p,
                          "Expected identifier after comma in ORDER BY clause"),
                fields |-> fields, ascending |-> ascending]
          : m \in {match(p, "TOKEN_COMMA")} })

parse_order_by(p) ==
    The({ Alloc([p |-> r.p,
           node |-> [create_node("NODE_ORDER_BY") EXCEPT
                       !.line = p.previous.line, !.fields = r.fields,
                       !.ascending = r.ascending]])
          : r \in {IF check(p, "TOKEN_IDENTIFIER")
                   THEN The({ order_by_loop(f.p, << f.field >>, << f.ascending >>)
                              : f \in {order_by_field(p)} })
                   ELSE [p |-> error_at_current(p,
                                   "Expected identifier for ORDER BY clause"),
                         fields |-> << >>, ascending |-> << >>]} })

\* the integer after LIMIT or OFFSET
limit_value(p, message) ==
    IF check(p, "TOKEN_INTEGER")
    THEN [p |-> advance(p), v |-> strtol(p, p.current)]
    ELSE [p |-> error_at_current(p, message), v |-> 0]

parse_limit(p) ==
    The({ The({ The({ Alloc([p |-> ro.p,
                       node |-> [create_node("NODE_LIMIT") EXCEPT
                                   !.line = p.previous.line, !.limit = rl.v,
                                   !.offset = ro.v]])
                      \* match() consumes any identifier before it is compared
                      \* with OFFSET
                      : ro \in {IF ~(m.ok /\ TokenText(p.lexer.source, m.p.previous)
                                               = <<79, 70, 70, 83, 69, 84>>)   \* OFFSET
                                THEN [p |-> m.p, v |-> 0]
                                ELSE limit_value(m.p,
                                        "Expected integer for OFFSET clause")} })
                : m \in {match(rl.p, "TOKEN_IDENTIFIER")} })
          : rl \in {limit_value(p, "Expected integer for LIMIT clause")} })

\* (match(ORDER) && match(BY)) || (match(SORT) && match(BY))
match_order_by(p) ==
    The({ The({ IF m2.ok THEN m2
                ELSE The({ IF m3.ok THEN match(m3.p, "TOKEN_BY") ELSE m3
                           : m3 \in {match(m2.p, "TOKEN_SORT")} })
                : m2 \in {IF m1.ok THEN match(m1.p, "TOKEN_BY") ELSE m1} })
          : m1 \in {match(p, "TOKEN_ORDER")} })

\* a clause parsed by parse_clause only when its keyword matched
optional_order_by(m) == IF m.ok THEN parse_order_by(m.p) ELSE [p |-> m.p, node |-> Null]

optional_limit(m) == IF m.ok THEN parse_limit(m.p) ELSE [p |-> m.p, node |-> Null]

optional_group_by(m) ==
    IF m.ok THEN parse_group_by(consume(m.p, "TOKEN_BY", "Expected 'BY' after 'GROUP'"))
    ELSE [p |-> m.p, node |-> Null]

\* the optional GROUP BY, ORDER BY / SORT BY and LIMIT clauses that end
\* ASK, FIND, SHOW and GET
parse_clauses(p) ==
    The({ The({ The({ [p |-> rl.p, group_by |-> rg.node, order_by |-> ro.node,
                       limit |-> rl.node]
                      : rl \in {optional_limit(match(ro.p, "TOKEN_LIMIT"))} })
                : ro \in {optional_order_by(match_order_by(rg.p))} })
          : rg \in {optional_group_by(match(p, "TOKEN_GROUP"))} })

(***************************************************************************)
(* TELL actions (parser.c)                                                 *)
(***************************************************************************)
parse_record_spec(p) == parse_field_list(p)

optional_record_spec(m) ==
    IF m.ok THEN parse_record_spec(m.p) ELSE [p |-> m.p, node |-> Null]

parse_add_action(p) ==
    The({ The({ Alloc([p |-> rr.p,
                 node |-> [create_node("NODE_ADD_ACTION") EXCEPT
                             !.line = p.previous.line, !.value = rv.node,
                             !.record_spec = rr.node]])
                : rr \in {optional_record_spec(match(rv.p, "TOKEN_WITH"))} })
          : rv \in {parse_expression(p)} })

\* the condition keyword is checked, not consumed
parse_remove_action(p) ==
    The({ Alloc([p |-> r.p,
           node |-> [create_node("NODE_REMOVE_ACTION") EXCEPT
                       !.line = p.previous.line, !.condition = r.node]])
          : r \in {IF check(p, "TOKEN_WHEN") \/ check(p, "TOKEN_IF")
                      \/ check(p, "TOKEN_WHERE")
                   THEN parse_condition(p) ELSE [p |-> p, node |-> Null]} })

\* one field = expr pair of UPDATE
update_pair(p) ==
    The({ [p |-> r.p, field |-> identifier_node(p), value |-> r.node]
          : r \in {parse_expression(consume(advance(Bump(p)), "TOKEN_EQUAL",
                                            "Expected '=' after field name"))} })

RECURSIVE update_loop(_, _, _)
update_loop(p, fields, values) ==
    The({ IF ~m.ok THEN [p |-> m.p, fields |-> fields, values |-> values]
          ELSE IF check(m.p, "TOKEN_IDENTIFIER")
          THEN The({ update_loop(r.p, Append(fields, r.field), Append(values, r.value))
                     : r \in {update_pair(m.p)} })
          ELSE [p |-> error_at_current(m.p,
                          "Expected identifier after comma in UPDATE action"),
                fields |-> fields, values |-> values]
          : m \in {match(p, "TOKEN_COMMA")} })

parse_update_action(p) ==
    The({ Alloc([p |-> r.p,
           node |-> [create_node("NODE_UPDATE_ACTION") EXCEPT
                       !.line = p.previous.line, !.fields = r.fields,
                       !.values = r.values]])
          : r \in {IF check(p, "TOKEN_IDENTIFIER")
                   THEN The({ update_loop(u.p, << u.field >>, << u.value >>)
                              : u \in {update_pair(p)} })
                   ELSE [p |-> error_at_current(p, "Expected identifier for UPDATE action"),
                         fields |-> << >>, values |-> << >>]} })

\* the word of the current token when it is an identifier
constraint_word(p) ==
    IF check(p, "TOKEN_IDENTIFIER") THEN TokenText(p.lexer.source, p.current) ELSE << >>

\* REQUIRED, UNIQUE and DEFAULT each take the word before anything else
parse_constraint(p) ==
    IF ~check(p, "TOKEN_IDENTIFIER")
    THEN Alloc([p |-> error_at_current(p, "Expected constraint type"),
          node |-> [create_node("NODE_CONSTRAINT") EXCEPT !.line = p.previous.line]])
    ELSE IF constraint_word(p) = <<82, 69, 81, 85, 73, 82, 69, 68>>   \* REQUIRED
    THEN Alloc([p |-> advance(p),
          node |-> [create_node("NODE_CONSTRAINT") EXCEPT
                      !.line = p.previous.line, !.ctype = "CONSTRAINT_REQUIRED"]])
    ELSE IF constraint_word(p) = <<85, 78, 73, 81, 85, 69>>   \* UNIQUE
    THEN Alloc([p |-> advance(p),
          node |-> [create_node("NODE_CONSTRAINT") EXCEPT
                      !.line = p.previous.line, !.ctype = "CONSTRAINT_UNIQUE"]])
    ELSE IF constraint_word(p) = <<68, 69, 70, 65, 85, 76, 84>>   \* DEFAULT
    THEN The({ Alloc([p |-> r.p,
                node |-> [create_node("NODE_CONSTRAINT") EXCEPT
                            !.line = p.previous.line, !.ctype = "CONSTRAINT_DEFAULT",
                            !.default_value = r.node]])
               : r \in {parse_expression(advance(p))} })
    ELSE Alloc([p |-> error_at_current(p, "Expected constraint type (REQUIRED, UNIQUE, DEFAULT)"),
          node |-> [create_node("NODE_CONSTRAINT") EXCEPT !.line = p.previous.line]])

RECURSIVE constraint_loop(_, _)
constraint_loop(p, constraints) ==
    The({ IF ~m.ok THEN [p |-> m.p, constraints |-> constraints]
          ELSE The({ constraint_loop(r.p, Append(constraints, r.node))
                     : r \in {parse_constraint(m.p)} })
          : m \in {match(p, "TOKEN_COMMA")} })

\* the field name of a field definition
field_def_name(p) ==
    IF check(p, "TOKEN_IDENTIFIER")
    THEN [p |-> advance(Bump(p)), node |-> identifier_node(p)]
    ELSE [p |-> error_at_current(p, "Expected identifier for field name"), node |-> Null]

\* the optional AS type of a field definition, ma being the match of AS
field_def_type(ma) ==
    IF ~ma.ok THEN [p |-> ma.p, type_name |-> NullStr]
    ELSE IF check(ma.p, "TOKEN_IDENTIFIER")
    THEN [p |-> advance(ma.p), type_name |-> CStr(copy_token_string(ma.p, ma.p.current))]
    ELSE [p |-> error_at_current(ma.p, "Expected identifier for field type"),
          type_name |-> NullStr]

\* the optional parenthesised constraints, ml being the match of '('
field_def_constraints(ml) ==
    IF ~ml.ok THEN [p |-> ml.p, constraints |-> << >>]
    ELSE The({ [p |-> consume(cs.p, "TOKEN_RPAREN",
                              "Expected ')' after field constraints"),
                constraints |-> cs.constraints]
               : cs \in { The({ constraint_loop(c1.p, << c1.node >>)
                                : c1 \in {parse_constraint(ml.p)} }) } })

parse_field_def(p) ==
    The({ The({ The({ Alloc([p |-> rc.p,
                       node |-> [create_node("NODE_FIELD_DEF") EXCEPT
                                   !.line = p.previous.line, !.name = rn.node,
                                   !.type_name = rt.type_name,
                                   !.constraints = rc.constraints]])
                      : rc \in {field_def_constraints(match(rt.p, "TOKEN_LPAREN"))} })
                : rt \in {field_def_type(match(rn.p, "TOKEN_AS"))} })
          : rn \in {field_def_name(p)} })

RECURSIVE field_def_loop(_, _)
field_def_loop(p, field_defs) ==
    The({ IF ~m.ok THEN [p |-> m.p, field_defs |-> field_defs]
          ELSE The({ field_def_loop(r.p, Append(field_defs, r.node))
                     : r \in {parse_field_def(m.p)} })
          : m \in {match(p, "TOKEN_COMMA")} })

parse_create_action(p) ==
    The({ Alloc([p |-> r.p,
           node |-> [create_node("NODE_CREATE_ACTION") EXCEPT
                       !.line = p.previous.line, !.field_defs = r.field_defs]])
          : r \in { The({ field_def_loop(f1.p, << f1.node >>)
                          : f1 \in {parse_field_def(p)} }) } })

(***************************************************************************)
(* Queries (parser.c)                                                      *)
(***************************************************************************)
ConditionStart == {"TOKEN_WHEN", "TOKEN_IF", "TOKEN_WHERE"}

parse_ask_query(p) ==
    The({ The({ The({ The({ Alloc([p |-> t.p,
                             node |-> [create_node("NODE_ASK_QUERY") EXCEPT
                                         !.line = p.previous.line, !.source = rs.node,
                                         !.fields = rf.node, !.condition = rc.node,
                                         !.group_by = t.group_by,
                                         !.order_by = t.order_by, !.limit = t.limit]])
                            : t \in {parse_clauses(rc.p)} })
                      : rc \in {optional_condition(match_any(rf.p, ConditionStart))} })
                : rf \in {parse_field_list(
                              consume(rs.p, "TOKEN_FOR",
                                      "Expected 'FOR' after source in ASK query"))} })
          : rs \in {parse_source(p)} })

\* the action after TO: m is the match of the action keyword that p1 held
tell_action(p1, m) ==
    CASE p1.current.type = "TOKEN_ADD" -> parse_add_action(m.p)
      [] p1.current.type = "TOKEN_REMOVE" -> parse_remove_action(m.p)
      [] p1.current.type = "TOKEN_UPDATE" -> parse_update_action(m.p)
      [] OTHER -> parse_create_action(m.p)

parse_tell_query(p) ==
    The({ The({ The({ IF ~ma.ok
                      THEN [p |-> error_at_current(p1,
                                    "Expected action (ADD, REMOVE, UPDATE, CREATE)"),
                            node |-> Null]
                      ELSE The({ The({ Alloc([p |-> rc.p,
                                        node |-> [create_node("NODE_TELL_QUERY") EXCEPT
                                                    !.line = p.previous.line,
                                                    !.source = rs.node,
                                                    !.action = ra.node,
                                                    !.condition = rc.node]])
                                       : rc \in {optional_condition(
                                                   match_any(ra.p, ConditionStart))} })
                                 : ra \in {tell_action(p1, ma)} })
                      : ma \in {match_any(p1, {"TOKEN_ADD", "TOKEN_REMOVE",
                                              "TOKEN_UPDATE", "TOKEN_CREATE"})} })
                : p1 \in {consume(rs.p, "TOKEN_TO",
                                  "Expected 'TO' after source in TELL query")} })
          : rs \in {parse_source(p)} })

\* the source FIND builds when no identifier follows: an implicit "*"
implicit_source(p) ==
    [create_node("NODE_SOURCE") EXCEPT
        !.addr = p.nodes + 1,
        !.line = p.previous.line,
        !.identifier = [create_node("NODE_IDENTIFIER") EXCEPT
                          !.addr = p.nodes + 2,
                          !.line = p.previous.line, !.name = <<42>>, !.length = 1]]

\* the source of FIND, before an IN replaces it
find_source(p) ==
    IF check(p, "TOKEN_IDENTIFIER") THEN parse_source(p)
    ELSE [p |-> Bump(Bump(p)), node |-> implicit_source(p)]

parse_find_query(p) ==
    The({ The({ The({ The({ The({ Alloc([p |-> t.p,
                                   node |-> [create_node("NODE_FIND_QUERY") EXCEPT
                                               !.line = p.previous.line,
                                               !.source = rs.node,
                                               !.condition = rc.node,
                                               !.group_by = t.group_by,
                                               !.order_by = t.order_by,
                                               !.limit = t.limit]])
                                  : t \in {parse_clauses(rc.p)} })
                            : rc \in {optional_condition(
                                        match_any(rs.p, {"TOKEN_THAT", "TOKEN_WHEN",
                                                         "TOKEN_WHERE", "TOKEN_WHICH"}))} })
                      \* IN replaces the source; the first one is freed
                      : rs \in {IF mi.ok
                                THEN The({ [r EXCEPT !.p.freed = @ \o free_node(r1.node)]
                                           : r \in {parse_source(mi.p)} })
                                ELSE [p |-> mi.p, node |-> r1.node]} })
                : mi \in {match(r1.p, "TOKEN_IN")} })
          : r1 \in {find_source(p)} })

\* SHOW and GET both build a NODE_SHOW_QUERY
parse_show_query(p) ==
    The({ The({ The({ The({ Alloc([p |-> t.p,
                             node |-> [create_node("NODE_SHOW_QUERY") EXCEPT
                                         !.line = p.previous.line, !.fields = rf.node,
                                         !.source = rs.node, !.condition = rc.node,
                                         !.group_by = t.group_by,
                                         !.order_by = t.order_by, !.limit = t.limit]])
                            : t \in {parse_clauses(rc.p)} })
                      : rc \in {optional_condition(match_any(rs.p, ConditionStart))} })
                : rs \in {parse_source(
                              consume(rf.p, "TOKEN_FROM",
                                      "Expected 'FROM' after fields in SHOW query"))} })
          : rf \in {parse_field_list(match(p, "TOKEN_IDENTIFIER").p)} })

parse_query(p) ==
    The({ IF ~m.ok
          THEN [p |-> error_at_current(p,
                        "Expected a query type (ASK, TELL, FIND, SHOW, GET)"),
                node |-> Null]
          ELSE CASE p.current.type = "TOKEN_ASK" -> parse_ask_query(m.p)
                 [] p.current.type = "TOKEN_TELL" -> parse_tell_query(m.p)
                 [] p.current.type = "TOKEN_FIND" -> parse_find_query(m.p)
                 [] OTHER -> parse_show_query(m.p)
          : m \in {match_any(p, QueryStart)} })

(***************************************************************************)
(* Serialization buffer (ast_serializer.c).  The buffer is the sequence of *)
(* bytes written so far; multi-byte values are copied in the byte order of *)
(* the host, least significant byte first.  Allocation always succeeds.    *)
(***************************************************************************)
NodeTypes ==
    << "NODE_ASK_QUERY", "NODE_TELL_QUERY", "NODE_FIND_QUERY", "NODE_SHOW_QUERY",
       "NODE_GET_QUERY", "NODE_FIELD_LIST", "NODE_SOURCE", "NODE_JOIN", "NODE_GROUP_BY",
       "NODE_ORDER_BY", "NODE_LIMIT", "NODE_ADD_ACTION", "NODE_REMOVE_ACTION",
       "NODE_UPDATE_ACTION", "NODE_CREATE_ACTION", "NODE_BINARY_EXPR", "NODE_UNARY_EXPR",
       "NODE_IDENTIFIER", "NODE_LITERAL", "NODE_FIELD_DEF", "NODE_CONSTRAINT",
       "NODE_FUNCTION_CALL", "NODE_ERROR", "NODE_PROGRAM" >>

TokenTypes ==
    << "TOKEN_ASK", "TOKEN_TELL", "TOKEN_FIND", "TOKEN_SHOW", "TOKEN_GET", "TOKEN_FOR",
       "TOKEN_FROM", "TOKEN_IF", "TOKEN_WHEN", "TOKEN_WHERE", "TOKEN_GROUP", "TOKEN_ORDER",
       "TOKEN_BY", "TOKEN_LIMIT", "TOKEN_TO", "TOKEN_IN", "TOKEN_ADD", "TOKEN_REMOVE",
       "TOKEN_UPDATE", "TOKEN_CREATE", "TOKEN_AND", "TOKEN_OR", "TOKEN_NOT", "TOKEN_HAVING",
       "TOKEN_WITH", "TOKEN_AS", "TOKEN_THAT", "TOKEN_SORT", "TOKEN_WHICH", "TOKEN_PLUS",
       "TOKEN_MINUS", "TOKEN_STAR", "TOKEN_SLASH", "TOKEN_PERCENT", "TOKEN_EQUAL", "TOKEN_GT",
       "TOKEN_LT", "TOKEN_GTE", "TOKEN_LTE", "TOKEN_NEQ", "TOKEN_LIKE", "TOKEN_IDENTIFIER",
       "TOKEN_STRING", "TOKEN_INTEGER", "TOKEN_DECIMAL", "TOKEN_COMMA", "TOKEN_LPAREN",
       "TOKEN_RPAREN", "TOKEN_EOF", "TOKEN_ERROR", "TOKEN_TERMINATOR" >>

ConstraintTypes == << "CONSTRAINT_REQUIRED", "CONSTRAINT_UNIQUE", "CONSTRAINT_DEFAULT" >>

\* the integer value of an enumerator: its position in the declaration
EnumVal(names, x) == (CHOOSE i \in 1..Len(names) : names[i] = x) - 1

write_bytes(buf, data) == buf \o data

write_uint8(buf, value) == write_bytes(buf, << value % 256 >>)

write_uint16(buf, value) == write_bytes(buf, U16(value % 65536))

write_uint32(buf, value) == write_bytes(buf, U32(value))

write_int32(buf, value) == write_bytes(buf, U32(value))

UINT16_MAX == 65535

\* a write of the whole string behind its length cast to uint16_t
write_string_whole(buf, str) ==
    IF str.null THEN write_uint16(buf, 0)
    ELSE write_bytes(write_uint16(buf, Len(str.s)), str.s)

\* write_string prints its truncation warning to stderr
write_string_warns(str) == ~str.null /\ Len(str.s) > UINT16_MAX

write_string(buf, str) ==
    IF str.null THEN write_uint16(buf, 0)
    ELSE LET len == IF Len(str.s) > UINT16_MAX THEN UINT16_MAX ELSE Len(str.s)
         IN  IF len > 0 THEN write_bytes(write_uint16(buf, len), SubSeq(str.s, 1, len))
             ELSE write_uint16(buf, len)

\* the binary digits of n > 0, most significant first
RECURSIVE Bits(_)
Bits(n) == IF n = 0 THEN << >> ELSE Append(Bits(n \div 2), n % 2)

\* the binary digits of n on exactly k places
RECURSIVE BitsN(_, _)
BitsN(n, k) == IF k = 0 THEN << >> ELSE Append(BitsN(n \div 2, k - 1), n % 2)

\* the next k binary digits of the fraction r / den, and the remainder left,
\* taken eight digits at a time (den is at most 10^6)
RECURSIVE FracBits(_, _, _)
FracBits(r, den, k) ==
    IF k = 0 THEN [bits |-> << >>, r |-> r]
    ELSE LET n == IF k < 8 THEN k ELSE 8
             q == (r * (2 ^ n)) \div den
             t == FracBits((r * (2 ^ n)) % den, den, k - n)
         IN  [bits |-> BitsN(q, n) \o t.bits, r |-> t.r]

\* the zero digits a fraction 0 < r / den < 1 starts with
RECURSIVE LeadZeros(_, _)
LeadZeros(r, den) ==
    IF 2 * r >= den THEN [z |-> 0, r |-> r]
    ELSE LET t == LeadZeros(2 * r, den) IN [z |-> t.z + 1, r |-> t.r]

\* a digit string plus one
RECURSIVE BitsInc(_)
BitsInc(bits) ==
    IF Len(bits) = 0 THEN << 1 >>
    ELSE IF bits[Len(bits)] = 0 THEN [bits EXCEPT ![Len(bits)] = 1]
    ELSE Append(BitsInc(SubSeq(bits, 1, Len(bits) - 1)), 0)

RECURSIVE BitsVal(_)
BitsVal(bits) ==
    IF Len(bits) = 0 THEN 0
    ELSE 2 * BitsVal(SubSeq(bits, 1, Len(bits) - 1)) + bits[Len(bits)]

RECURSIVE Pow10(_)
Pow10(k) == IF k = 0 THEN 1 ELSE 10 * Pow10(k - 1)

\* the object representation of the double nearest to ip + 0.fp (IEEE 754
\* binary64, round to nearest even), least significant byte first
DoubleBytes(num) ==
    LET den  == Pow10(Len(num.fp))
        frac == DigitsVal(num.fp)
    IN  IF num.ip = 0 /\ frac = 0 THEN [i \in 1..8 |-> 0]
        ELSE
        LET ib   == Bits(num.ip)
            lz   == IF num.ip = 0 THEN LeadZeros(frac, den) ELSE [z |-> 0, r |-> frac]
            fb   == FracBits(lz.r, den, 53 - Len(ib))
            sig  == ib \o fb.bits
            e    == IF num.ip = 0 THEN 0 - (lz.z + 1) ELSE Len(ib) - 1
            up   == 2 * fb.r > den \/ (2 * fb.r = den /\ sig[53] = 1)
            rsig == IF up THEN BitsInc(sig) ELSE sig
            e1   == IF Len(rsig) > 53 THEN e + 1 ELSE e
            all  == << 0 >> \o BitsN(e1 + 1023, 11) \o SubSeq(rsig, 2, 53)
        IN  [i \in 1..8 |-> BitsVal(SubSeq(all, 8 * (8 - i) + 1, 8 * (8 - i) + 8))]

write_double(buf, value) == write_bytes(buf, DoubleBytes(value))

(***************************************************************************)
(* Node serialization (ast_serializer.c).  A serialization state s holds   *)
(* the buffer, ok (no write or node has failed so far) and crashed (a null *)
(* pointer was dereferenced).  Once ok is false or crashed is true nothing *)
(* more is written: every caller returns false at once.                    *)
(***************************************************************************)
SerInit == [buf |-> << >>, ok |-> TRUE, crashed |-> FALSE]

\* s after a write, when s is still live
Wr(s, buf) == IF s.ok /\ ~s.crashed THEN [s EXCEPT !.buf = buf] ELSE s

RECURSIVE serialize_node(_, _)
RECURSIVE serialize_nodes(_, _)
RECURSIVE serialize_order_fields(_, _, _)
RECURSIVE serialize_update_pairs(_, _, _)

\* if (!serialize_node(buf, n1)) return false; if (!serialize_node(buf, n2)) ...
serialize_nodes(s, nodes) ==
    IF Len(nodes) = 0 \/ ~s.ok \/ s.crashed THEN s
    ELSE serialize_nodes(serialize_node(s, Head(nodes)), Tail(nodes))

serialize_field_list(s, node) ==
    serialize_nodes(Wr(s, write_uint16(s.buf, Len(node.fields))), node.fields)

serialize_source(s, node) ==
    IF node.identifier = Null THEN [s EXCEPT !.crashed = TRUE]
    ELSE LET s1 == Wr(s, write_string(s.buf, CStr(node.identifier.name)))
         IN  IF node.join # Null
             THEN serialize_node(Wr(s1, write_uint8(s1.buf, 1)), node.join)
             ELSE Wr(s1, write_uint8(s1.buf, 0))

serialize_binary_expr(s, node) ==
    serialize_nodes(Wr(s, write_uint8(s.buf, EnumVal(TokenTypes, node.op))),
                    << node.left, node.right >>)

serialize_identifier(s, node) == Wr(s, write_string(s.buf, CStr(node.name)))

serialize_literal(s, node) ==
    LET s1 == Wr(s, write_uint8(s.buf, EnumVal(TokenTypes, node.literal_type)))
    IN  CASE node.literal_type = "TOKEN_STRING" ->
                Wr(s1, write_string(s1.buf, CStr(node.string_value)))
          [] node.literal_type \in {"TOKEN_INTEGER", "TOKEN_DECIMAL"} ->
                Wr(s1, write_double(s1.buf, node.number_value))
          [] OTHER -> [s1 EXCEPT !.ok = FALSE]

serialize_order_fields(s, node, i) ==
    IF i > Len(node.fields) \/ ~s.ok \/ s.crashed THEN s
    ELSE LET s1 == serialize_node(s, node.fields[i])
         IN  serialize_order_fields(
                 Wr(s1, write_uint8(s1.buf, IF node.ascending[i] THEN 1 ELSE 0)), node, i + 1)

serialize_update_pairs(s, node, i) ==
    IF i > Len(node.fields) \/ ~s.ok \/ s.crashed THEN s
    ELSE serialize_update_pairs(
             serialize_nodes(s, << node.fields[i], node.values[i] >>), node, i + 1)

serialize_node(s, node) ==
    IF ~s.ok \/ s.crashed THEN s
    ELSE IF node = Null THEN Wr(s, write_uint8(s.buf, 255))
    ELSE
    LET t  == node.type
        s1 == Wr(s, write_uint32(write_uint8(s.buf, EnumVal(NodeTypes, t)), node.line))
    IN  CASE t = "NODE_ASK_QUERY" ->
                serialize_nodes(s1, << node.source, node.fields, node.condition,
                                       node.group_by, node.order_by, node.limit >>)
          [] t = "NODE_TELL_QUERY" ->
                serialize_nodes(s1, << node.source, node.action, node.condition >>)
          [] t = "NODE_FIND_QUERY" ->
                serialize_nodes(s1, << node.source, node.condition, node.group_by,
                                       node.order_by, node.limit >>)
          [] t \in {"NODE_SHOW_QUERY", "NODE_GET_QUERY"} ->
                serialize_nodes(s1, << node.source, node.fields, node.condition,
                                       node.group_by, node.order_by, node.limit >>)
          [] t = "NODE_FIELD_LIST" -> serialize_field_list(s1, node)
          [] t = "NODE_SOURCE" -> serialize_source(s1, node)
          [] t = "NODE_JOIN" -> serialize_nodes(s1, << node.source, node.condition >>)
          [] t = "NODE_GROUP_BY" -> serialize_nodes(s1, << node.fields, node.having >>)
          [] t = "NODE_ORDER_BY" ->
                serialize_order_fields(Wr(s1, write_uint16(s1.buf, Len(node.fields))), node, 1)
          [] t = "NODE_LIMIT" ->
                Wr(s1, write_int32(write_int32(s1.buf, node.limit), node.offset))
          [] t = "NODE_BINARY_EXPR" -> serialize_binary_expr(s1, node)
          [] t = "NODE_UNARY_EXPR" ->
                serialize_node(Wr(s1, write_uint8(s1.buf, EnumVal(TokenTypes, node.op))),
                               node.operand)
          [] t = "NODE_IDENTIFIER" -> serialize_identifier(s1, node)
          [] t = "NODE_LITERAL" -> serialize_literal(s1, node)
          [] t = "NODE_ADD_ACTION" -> serialize_nodes(s1, << node.value, node.record_spec >>)
          [] t = "NODE_REMOVE_ACTION" -> serialize_node(s1, node.condition)
          [] t = "NODE_UPDATE_ACTION" ->
                serialize_update_pairs(Wr(s1, write_uint16(s1.buf, Len(node.fields))), node, 1)
          [] t = "NODE_CREATE_ACTION" ->
                serialize_nodes(Wr(s1, write_uint16(s1.buf, Len(node.field_defs))),
                                node.field_defs)
          [] t = "NODE_FIELD_DEF" ->
                LET s2 == serialize_node(s1, node.name)
                    s3 == Wr(s2, write_uint16(write_string(s2.buf, node.type_name),
                                              Len(node.constraints)))
                IN  serialize_nodes(s3, node.constraints)
          [] t = "NODE_CONSTRAINT" ->
                serialize_node(Wr(s1, write_uint8(s1.buf, EnumVal(ConstraintTypes, node.ctype))),
                               node.default_value)
          [] t = "NODE_FUNCTION_CALL" ->
                serialize_nodes(
                    Wr(s1, write_uint16(write_string(s1.buf, CStr(node.name)), Len(node.args))),
                    node.args)
          [] t = "NODE_ERROR" -> Wr(s1, write_string(s1.buf, node.message))
          [] OTHER -> [s1 EXCEPT !.ok = FALSE]

(***************************************************************************)
(* Execution metadata and the serialized container (ast_serializer.h/.c).  *)
(* A pointer that may be NULL is NullPtr or Ptr(v).                        *)
(***************************************************************************)
NullPtr == [null |-> TRUE]

Ptr(v) == [null |-> FALSE, v |-> v]

AST_MAGIC_NUMBER == << 76, 81, 82, 78 >>     \* 0x4E52514C

AST_VERSION == 1

AST_HEADER_SIZE == 28

ENGINE_AUTO == 0

ENGINE_SQL == 1

ENGINE_NOSQL == 2

HINT_PARALLEL_EXEC == 1

HINT_INDEX_SCAN == 2

HINT_FULL_SCAN == 3

HINT_CACHE_RESULT == 4

HINT_PRIORITY_HIGH == 16

HINT_PRIORITY_LOW == 32

HINT_READ_ONLY == 64

\* flags |= hint on the uint16_t hint_flags
HintOr(flags, hint) == OrN(flags, hint, 16)

\* if (flags & hint): the test the command-line tool prints the hints with
HasHint(flags, hint) == AndN(flags, hint, 16) # 0

ExecutionMetadata(hint_flags, priority, engine_type, estimated_rows, timeout_ms, target_index) ==
    [hint_flags |-> hint_flags, priority |-> priority, engine_type |-> engine_type,
     estimated_rows |-> estimated_rows, timeout_ms |-> timeout_ms,
     target_index |-> target_index]

serialize_metadata(s, metadata) ==
    IF metadata.null
    THEN Wr(s, write_string(
                  write_uint32(
                    write_uint32(
                      write_uint8(write_uint8(write_uint16(s.buf, 0), 128), ENGINE_AUTO),
                      0),
                    30000),
                  NullStr))
    ELSE LET m == metadata.v IN
         Wr(s, write_string(
                  write_uint32(
                    write_uint32(
                      write_uint8(write_uint8(write_uint16(s.buf, m.hint_flags), m.priority),
                                  m.engine_type),
                      m.estimated_rows),
                    m.timeout_ms),
                  m.target_index))

ast_is_nosql_query(node) ==
    IF node = Null THEN FALSE
    ELSE CASE node.type = "NODE_FIND_QUERY" -> TRUE
           [] node.type \in {"NODE_SHOW_QUERY", "NODE_GET_QUERY"} -> TRUE
           [] node.type = "NODE_TELL_QUERY" -> FALSE
           [] node.type = "NODE_ASK_QUERY" -> FALSE
           [] OTHER -> FALSE

\* ast_create_metadata that hands out the defaults for every root
ast_create_metadata_default(node) == ExecutionMetadata(0, 128, ENGINE_AUTO, 0, 30000, NullStr)

ast_create_metadata(node) ==
    LET m0 == ExecutionMetadata(0, 128, ENGINE_AUTO, 0, 30000, NullStr) IN
    IF node = Null THEN m0
    ELSE IF ast_is_nosql_query(node)
    THEN LET m1 == [m0 EXCEPT !.engine_type = ENGINE_NOSQL,
                              !.hint_flags = HintOr(@, HintOr(HINT_PARALLEL_EXEC, HINT_READ_ONLY)),
                              !.priority = 128, !.timeout_ms = 10000]
             m2 == IF node.type = "NODE_FIND_QUERY"
                   THEN [m1 EXCEPT !.estimated_rows = 10000,
                                   !.hint_flags = HintOr(@, HINT_FULL_SCAN)]
                   ELSE m1
         IN  IF node.type \in {"NODE_SHOW_QUERY", "NODE_GET_QUERY"}
             THEN [m2 EXCEPT !.estimated_rows = 1000,
                             !.hint_flags = HintOr(@, HINT_CACHE_RESULT), !.priority = 96]
             ELSE m2
    ELSE LET m1 == [m0 EXCEPT !.engine_type = ENGINE_SQL] IN
         CASE node.type = "NODE_ASK_QUERY" ->
                LET m2 == [m1 EXCEPT !.hint_flags = HintOr(@, HINT_READ_ONLY), !.priority = 128]
                    m3 == IF node.condition # Null
                          THEN [m2 EXCEPT !.hint_flags = HintOr(@, HINT_INDEX_SCAN),
                                          !.estimated_rows = 100]
                          ELSE [m2 EXCEPT !.hint_flags = HintOr(@, HINT_FULL_SCAN),
                                          !.estimated_rows = 1000]
                IN  IF node.limit # Null
                    THEN [m3 EXCEPT !.hint_flags = HintOr(@, HINT_CACHE_RESULT)]
                    ELSE m3
           [] node.type = "NODE_TELL_QUERY" ->
                [m1 EXCEPT !.priority = 192, !.hint_flags = 0, !.estimated_rows = 1]
           [] OTHER -> m1

SerializedAST(data, checksum, is_valid) ==
    [data |-> data, size |-> Len(data), checksum |-> checksum, is_valid |-> is_valid]

\* the final buffer: the 28-byte header, then the data
container(data, checksum) ==
    write_bytes(
      write_uint32(
        write_bytes(
          write_uint32(
            write_uint32(
              write_uint32(
                write_uint32(write_bytes(<< >>, AST_MAGIC_NUMBER), AST_VERSION),
                0),
              Len(data)),
            Len(data)),
          checksum),
        0),
      data)

\* the result of ast_serialize: the handle returned, or crashed when the
\* call dereferenced a null pointer and never returned
ast_serialize(node, metadata) ==
    IF node = Null THEN [crashed |-> FALSE, ast |-> NullPtr]
    ELSE
    The({ IF s1.crashed THEN [crashed |-> TRUE, ast |-> NullPtr]
          ELSE
          The({ IF ~s1.ok \/ ~s2.ok THEN [crashed |-> FALSE, ast |-> NullPtr]
                ELSE
                The({ [crashed |-> FALSE,
                       ast |-> Ptr(SerializedAST(
                                 container(s2.buf, checksum), checksum, TRUE))]
                      : checksum \in {calculate_crc32(s2.buf)} })
                : s2 \in {serialize_metadata(s1, metadata)} })
          : s1 \in {serialize_node(SerInit, node)} })

\* the bytes and size ast_get_data hands out
ast_get_data(ast) ==
    IF ast.null \/ ~ast.v.is_valid THEN [data |-> NullPtr, size |-> 0]
    ELSE [data |-> Ptr(ast.v.data), size |-> ast.v.size]

\* a + b on uint32_t values given as bytes
RECURSIVE AddCarry(_, _, _, _)
AddCarry(a, b, i, carry) ==
    IF i > 4 THEN << >>
    ELSE << (a[i] + b[i] + carry) % 256 >>
            \o AddCarry(a, b, i + 1, (a[i] + b[i] + carry) \div 256)

Add32(a, b) == AddCarry(a, b, 1, 0)

\* the uint32_t stored at a byte offset of a buffer
ReadU32(data, offset) == SubSeq(data, offset + 1, offset + 4)

\* ast_deserialize with the version test written >= instead of >
ast_deserialize_version_ge(data, size) ==
    IF data.null \/ size < AST_HEADER_SIZE THEN NullPtr
    ELSE
    LET magic == ReadU32(data.v, 0)
        version == ReadU32(data.v, 4)
        data_size == ReadU32(data.v, 12)
        stored_checksum == ReadU32(data.v, 20)
    IN  IF magic # AST_MAGIC_NUMBER THEN NullPtr
        ELSE IF ~U32Gt(U32(AST_VERSION), version) THEN NullPtr
        ELSE IF U32(size) # Add32(U32(AST_HEADER_SIZE), data_size) THEN NullPtr
        ELSE LET computed_checksum ==
                     calculate_crc32(SubSeq(data.v, AST_HEADER_SIZE + 1,
                                            AST_HEADER_SIZE + U32Val(data_size)))
             IN  Ptr(SerializedAST(SubSeq(data.v, 1, size), computed_checksum,
                                   computed_checksum = stored_checksum))

\* ast_deserialize with is_valid set without comparing the checksums
ast_deserialize_unchecked(data, size) ==
    IF data.null \/ size < AST_HEADER_SIZE THEN NullPtr
    ELSE
    LET magic == ReadU32(data.v, 0)
        version == ReadU32(data.v, 4)
        data_size == ReadU32(data.v, 12)
    IN  IF magic # AST_MAGIC_NUMBER THEN NullPtr
        ELSE IF U32Gt(version, U32(AST_VERSION)) THEN NullPtr
        ELSE IF U32(size) # Add32(U32(AST_HEADER_SIZE), data_size) THEN NullPtr
        ELSE LET computed_checksum ==
                     calculate_crc32(SubSeq(data.v, AST_HEADER_SIZE + 1,
                                            AST_HEADER_SIZE + U32Val(data_size)))
             IN  Ptr(SerializedAST(SubSeq(data.v, 1, size), computed_checksum, TRUE))

\* data is the caller's buffer and size its length
ast_deserialize(data, size) ==
    IF data.null \/ size < AST_HEADER_SIZE THEN NullPtr
    ELSE
    LET magic == ReadU32(data.v, 0)
        version == ReadU32(data.v, 4)
        data_size == ReadU32(data.v, 12)
        stored_checksum == ReadU32(data.v, 20)
    IN  IF magic # AST_MAGIC_NUMBER THEN NullPtr
        ELSE IF U32Gt(version, U32(AST_VERSION)) THEN NullPtr
        ELSE IF U32(size) # Add32(U32(AST_HEADER_SIZE), data_size) THEN NullPtr
        ELSE LET computed_checksum ==
                     calculate_crc32(SubSeq(data.v, AST_HEADER_SIZE + 1,
                                            AST_HEADER_SIZE + U32Val(data_size)))
             IN  Ptr(SerializedAST(SubSeq(data.v, 1, size), computed_checksum,
                                   computed_checksum = stored_checksum))

ast_verify_checksum(ast) ==
    IF ast.null \/ ast.v.size < AST_HEADER_SIZE THEN FALSE
    ELSE LET stored_checksum == ReadU32(ast.v.data, 20)
             data_size == ReadU32(ast.v.data, 12)
         IN  calculate_crc32(SubSeq(ast.v.data, AST_HEADER_SIZE + 1,
                                    AST_HEADER_SIZE + U32Val(data_size))) = stored_checksum

(***************************************************************************)
(* ast_extract_metadata walks backwards from the end of the data region.   *)
(* A position is an offset from ast_data, which can fall before the        *)
(* buffer; oob says what a read outside the allocation does: SEGV stops    *)
(* the process, a byte value is what such a read finds.                    *)
(***************************************************************************)
SEGV == -1

\* the byte at ast_data + pos
ByteAt(ast, pos, oob) ==
    IF pos + AST_HEADER_SIZE >= 0 /\ pos + AST_HEADER_SIZE < ast.size
    THEN ast.data[pos + AST_HEADER_SIZE + 1]
    ELSE oob

\* the n bytes from ast_data + pos on: those before the buffer, then the rest
BytesAt(ast, pos, n, oob) ==
    LET before == 0 - (pos + AST_HEADER_SIZE)
        k == IF before <= 0 THEN 0 ELSE IF before < n THEN before ELSE n
    IN  [i \in 1..k |-> oob] \o [i \in 1..(n - k) |-> ByteAt(ast, pos + k + i - 1, oob)]

\* the C string held by a buffer that is followed by a NUL
CStringOf(bytes) ==
    LET nuls == {i \in 1..Len(bytes) : bytes[i] = 0}
        n == IF nuls = {} THEN Len(bytes)
             ELSE (CHOOSE i \in nuls : \A j \in nuls : i <= j) - 1
    IN  SubSeq(bytes, 1, n)

\* the result of ast_extract_metadata: its return value, what it stored in
\* *metadata, crashed when a read outside the allocation stopped it, and pos,
\* the offset from ast_data of the lowest byte it read (0 if it read none)
ast_extract_metadata(ast, oob) ==
    LET failed == [ok |-> FALSE, crashed |-> FALSE, metadata |-> NullPtr, pos |-> 0] IN
    IF ast.null \/ ~ast.v.is_valid THEN failed
    ELSE
    LET a == ast.v
        data_size == U32Val(ReadU32(a.data, 12))
    IN  IF data_size < 8 THEN failed
        ELSE
        LET pos1 == data_size - 2
            str_len == U16Val(BytesAt(a, pos1, 2, oob))
            pos2 == pos1 - str_len
            target_index == IF str_len > 0 THEN CStr(CStringOf(BytesAt(a, pos2, str_len, oob)))
                            ELSE NullStr
            pos3 == pos2 - 4
            timeout_ms == BytesAt(a, pos3, 4, oob)
            pos4 == pos3 - 4
            estimated_rows == BytesAt(a, pos4, 4, oob)
            pos5 == pos4 - 1
            engine_type == ByteAt(a, pos5, oob)
            pos6 == pos5 - 1
            priority == ByteAt(a, pos6, oob)
            pos7 == pos6 - 2
            hint_flags == U16Val(BytesAt(a, pos7, 2, oob))
        IN  IF pos7 + AST_HEADER_SIZE < 0 /\ oob = SEGV
            THEN [ok |-> FALSE, crashed |-> TRUE, metadata |-> NullPtr, pos |-> pos7]
            ELSE [ok |-> TRUE, crashed |-> FALSE,
                  metadata |-> Ptr(ExecutionMetadata(hint_flags, priority, engine_type,
                                                     estimated_rows, timeout_ms, target_index)),
                  pos |-> pos7]

(***************************************************************************)
(* Source texts.  A text is spelled as a tuple of words, written one       *)
(* space apart.                                                            *)
(***************************************************************************)
Spell ==
    "ASK" :> <<65, 83, 75>>
    @@
    "TELL" :> <<84, 69, 76, 76>>
    @@
    "FIND" :> <<70, 73, 78, 68>>
    @@
    "SHOW" :> <<83, 72, 79, 87>>
    @@
    "GET" :> <<71, 69, 84>>
    @@
    "FOR" :> <<70, 79, 82>>
    @@
    "FROM" :> <<70, 82, 79, 77>>
    @@
    "IF" :> <<73, 70>>
    @@
    "WHEN" :> <<87, 72, 69, 78>>
    @@
    "WHERE" :> <<87, 72, 69, 82, 69>>
    @@
    "LIMIT" :> <<76, 73, 77, 73, 84>>
    @@
    "TO" :> <<84, 79>>
    @@
    "ADD" :> <<65, 68, 68>>
    @@
    "REMOVE" :> <<82, 69, 77, 79, 86, 69>>
    @@
    "UPDATE" :> <<85, 80, 68, 65, 84, 69>>
    @@
    "CREATE" :> <<67, 82, 69, 65, 84, 69>>
    @@
    "AND" :> <<65, 78, 68>>
    @@
    "OR" :> <<79, 82>>
    @@
    "NOT" :> <<78, 79, 84>>
    @@
    "IN" :> <<73, 78>>
    @@
    "THAT" :> <<84, 72, 65, 84>>
    @@
    "ORDER" :> <<79, 82, 68, 69, 82>>
    @@
    "BY" :> <<66, 89>>
    @@
    "GROUP" :> <<71, 82, 79, 85, 80>>
    @@
    "HAVING" :> <<72, 65, 86, 73, 78, 71>>
    @@
    "WITH" :> <<87, 73, 84, 72>>
    @@
    "ME" :> <<77, 69>>
    @@
    "DESC" :> <<68, 69, 83, 67>>
    @@
    "ASC" :> <<65, 83, 67>>
    @@
    "OFFSET" :> <<79, 70, 70, 83, 69, 84>>
    @@
    "SET" :> <<83, 69, 84>>
    @@
    "users" :> <<117, 115, 101, 114, 115>>
    @@
    "orders" :> <<111, 114, 100, 101, 114, 115>>
    @@
    "sales" :> <<115, 97, 108, 101, 115>>
    @@
    "name" :> <<110, 97, 109, 101>>
    @@
    "email" :> <<101, 109, 97, 105, 108>>
    @@
    "age" :> <<97, 103, 101>>
    @@
    "id" :> <<105, 100>>
    @@
    "status" :> <<115, 116, 97, 116, 117, 115>>
    @@
    "total" :> <<116, 111, 116, 97, 108>>
    @@
    "date" :> <<100, 97, 116, 101>>
    @@
    "a" :> <<97>>
    @@
    "b" :> <<98>>
    @@
    "c" :> <<99>>
    @@
    "d" :> <<100>>
    @@
    "f" :> <<102>>
    @@
    "n" :> <<110>>
    @@
    "t" :> <<116>>
    @@
    "x" :> <<120>>
    @@
    "18" :> <<49, 56>>
    @@
    "5" :> <<53>>
    @@
    "1000" :> <<49, 48, 48, 48>>
    @@
    "1" :> <<49>>
    @@
    "2" :> <<50>>
    @@
    "3.14" :> <<51, 46, 49, 52>>
    @@
    "," :> <<44>>
    @@
    "(" :> <<40>>
    @@
    ")" :> <<41>>
    @@
    ">" :> <<62>>
    @@
    "<" :> <<60>>
    @@
    ">=" :> <<62, 61>>
    @@
    "<=" :> <<60, 61>>
    @@
    "=" :> <<61>>
    @@
    "!=" :> <<33, 61>>
    @@
    "+" :> <<43>>
    @@
    "-" :> <<45>>
    @@
    "*" :> <<42>>
    @@
    "/" :> <<47>>
    @@
    "%" :> <<37>>
    @@
    "@" :> <<64>>
    @@
    "!" :> <<33>>
    @@
    ";" :> <<59>>
    @@
    "\"open\"" :> <<34, 111, 112, 101, 110, 34>>
    @@
    "\"open" :> <<34, 111, 112, 101, 110>>
    @@
    "SORT" :> <<83, 79, 82, 84>>
    @@
    "WHICH" :> <<87, 72, 73, 67, 72>>
    @@
    "AS" :> <<65, 83>>
    @@
    "LIKE" :> <<76, 73, 75, 69>>
    @@
    "PLEASE" :> <<80, 76, 69, 65, 83, 69>>
    @@
    "ASKING" :> <<65, 83, 75, 73, 78, 71>>
    @@
    "ASK_1" :> <<65, 83, 75, 95, 49>>
    @@
    "ORDERS" :> <<79, 82, 68, 69, 82, 83>>
    @@
    "BYE" :> <<66, 89, 69>>
    @@
    "TOP" :> <<84, 79, 80>>
    @@
    "WHN" :> <<87, 72, 78>>
    @@
    "ask" :> <<97, 115, 107>>
    @@
    "'it is \"ok\"'" :> <<39, 105, 116, 32, 105, 115, 32, 34, 111, 107, 34, 39>>
    @@
    "\"it's\"" :> <<34, 105, 116, 39, 115, 34>>
    @@
    "'open" :> <<39, 111, 112, 101, 110>>
    @@
    "'a\"" :> <<39, 97, 34>>
    @@
    "NL" :> <<10>>
    @@
    ">>c" :> <<62, 62, 99>>
    @@
    "\"a NL b\"" :> <<34, 97, 10, 98, 34>>
    @@
    "'a NL b" :> <<39, 97, 10, 98>>

RECURSIVE Text(_)
Text(words) ==
    IF Len(words) = 0 THEN << >>
    ELSE IF Len(words) = 1 THEN Spell[words[1]]
    ELSE Spell[words[1]] \o << 32 >> \o Text(Tail(words))

(***************************************************************************)
(* State.                                                                  *)
(*   buffer      the SerializeBuffer of a caller of write_string, with the  *)
(*               warnings the call printed                                  *)
(*   ctx         the ErrorContext of a caller of report_error, with the     *)
(*               ErrorReport objects it points to                           *)
(*   calls       the report_error calls made so far and what they returned  *)
(*   lexer       the Lexer structure of a caller that takes tokens itself   *)
(*   tokens      the tokens lexer_next_token has returned to that caller     *)
(*   input       what the caller supplies: the words of the source text    *)
(*               and the build's recovery mode, or an AST built through    *)
(*               the node API, or a byte buffer of the caller's own        *)
(*   pc          how far the caller has got                                *)
(*   parser      the Parser structure                                      *)
(*   ast         the root returned by parse_query                          *)
(*   metadata    the ExecutionMetadata pointer passed to ast_serialize     *)
(*   serialized  the handle returned by ast_serialize                      *)
(*   bytes       the buffer handed to ast_deserialize                      *)
(*   loaded      the handle returned by ast_deserialize                    *)
(*   verified    the value returned by ast_verify_checksum                 *)
(*   extracted   the outcome of ast_extract_metadata                       *)
(***************************************************************************)
VARIABLES buffer, ctx, calls, lexer, tokens, input, pc, parser, ast, metadata, serialized, bytes,
          loaded, verified, extracted

vars ==
    << buffer, ctx, calls, lexer, tokens, input, pc, parser, ast, metadata, serialized, bytes,
       loaded, verified, extracted >>

\* a result that has not been produced yet
None == [null |-> TRUE]

NoOutcome == [ok |-> FALSE, crashed |-> FALSE, metadata |-> NullPtr, pos |-> 0]

\* the parse of a source text: parser_init followed by parse_query
Parse(words, recovery) == parse_query(parser_init(lexer_init(Text(words)), recovery))

(***************************************************************************)
(* Inputs of the codec                                                     *)
(***************************************************************************)
RootTexts ==
    { << "ASK", "users", "FOR", "name" >>,
      << "ASK", "users", "FOR", "name", ",", "email", "WHERE", "age", ">", "18" >>,
      << "ASK", "orders", "FOR", "id", "WHERE", "status", "=", "\"open\"", "LIMIT", "5" >>,
      << "ASK", "users", "FOR", "name", "ORDER", "BY", "age", "LIMIT", "5" >>,
      << "ASK", "users", "FOR", "name", "WHERE", "age", ">", "3.14" >>,
      << "FIND", "orders" >>,
      << "FIND", "orders", "THAT", "total", ">", "1000" >>,
      << "TELL", "users", "TO", "ADD", "\"open\"" >>,
      << "TELL", "users", "TO", "REMOVE" >>,
      << "TELL", "users", "TO", "UPDATE", "age", "=", "18" >>,
      << "TELL", "users", "TO", "CREATE", "id" >>,
      << "SHOW", "ME", "name", "FROM", "users" >>,
      << "GET", "ME", "name", "FROM", "users", "LIMIT", "5" >> }

\* a statement whose source is missing; without recovery the parser hands
\* out its tree with had_error = false
BrokenTexts == { << "ASK", "FOR", "name" >> }

RootInputs ==
    { [words |-> ws, recovery |-> TRUE] : ws \in RootTexts }
    \cup { [words |-> ws, recovery |-> FALSE] : ws \in BrokenTexts }

ParsedRoots ==
    { [family |-> "parsed", words |-> i.words, recovery |-> i.recovery,
       node |-> Parse(i.words, i.recovery).node] : i \in RootInputs }

\* a root only the node API can build
ApiRoot(n) == [family |-> "api", words |-> << >>, recovery |-> TRUE, node |-> n]

\* roots only the node API can build: a program node, a bare identifier, a
\* literal of no literal type, and no root at all
ApiNodes ==
    { create_node("NODE_PROGRAM"), create_node("NODE_LITERAL"),
      [create_node("NODE_IDENTIFIER") EXCEPT !.name = Spell["id"], !.length = 2, !.line = 1],
      Null }

\* the parsed roots, the GET statement the node API can make of each SHOW
\* statement, and the other roots of the node API
Roots ==
    UNION { {r} \cup (IF r.node.type = "NODE_SHOW_QUERY"
                      THEN {ApiRoot([r.node EXCEPT !.type = "NODE_GET_QUERY"])}
                      ELSE {}) : r \in ParsedRoots }
    \cup { ApiRoot(n) : n \in ApiNodes }

\* metadata records a caller fills in by hand
TargetIndexes == { NullStr, CStr(<< >>), CStr(Spell["a"]), CStr(Spell["date"]) }

CallerMetadata ==
    { ExecutionMetadata(HintOr(HINT_READ_ONLY, HINT_CACHE_RESULT), 200, ENGINE_SQL, 77, 5000, t) :
        t \in TargetIndexes }


\* buffers a caller puts together itself: a header with the given magic,
\* version, declared data size and checksum, followed by a payload
HeaderBuffer(magic, version, declared, checksum, payload) ==
    magic \o version \o U32(0) \o declared \o declared \o checksum \o U32(0) \o payload

Payloads ==
    { << >>, << 1, 2, 3 >>, << 0, 0, 0, 0, 0, 0, 0, 0 >>,
      serialize_metadata(SerInit, NullPtr).buf }

Magics == { AST_MAGIC_NUMBER, << 76, 81, 82, 0 >> }

Versions == { U32(0), U32(1), U32(2), << 0, 1, 0, 0 >>, << 0, 0, 0, 128 >> }

\* the payload's length, lengths next to it, and lengths whose sum with the
\* header size does not fit 32 bits
DeclaredSizes(payload) ==
    { U32(Len(payload)), U32(Len(payload) + 1), ALL_ONES32, << Len(payload), 0, 0, 1 >>,
      << (Len(payload) + 228) % 256, 255, 255, 255 >> }
    \cup (IF Len(payload) > 0 THEN { U32(Len(payload) - 1) } ELSE {})

CallerBuffers ==
    UNION { { HeaderBuffer(m, v, d, c, p) :
                m \in Magics, v \in Versions, d \in DeclaredSizes(p),
                c \in { U32(0), calculate_crc32(p) } } : p \in Payloads }
    \cup { << >>, SubSeq(HeaderBuffer(AST_MAGIC_NUMBER, U32(1), U32(0), U32(0), << >>), 1, 27) }

\* how far a changed byte may be from the byte it replaces
MaxDelta == 2

\* what a read outside the buffer may do in ast_extract_metadata
OobOutcomes == { SEGV, 0, 255 }

(***************************************************************************)
(* The codec, driven as the command-line tool drives it: classify the      *)
(* root, serialize, take the bytes, load them again, verify and extract.   *)
(***************************************************************************)
Fresh ==
    /\ buffer = None
    /\ ctx = None
    /\ calls = << >>
    /\ lexer = None
    /\ tokens = << >>
    /\ parser = None
    /\ metadata = NullPtr
    /\ serialized = NullPtr
    /\ loaded = NullPtr
    /\ verified = FALSE
    /\ extracted = NoOutcome

\* the caller holds a root
InitRoot ==
    /\ Fresh
    /\ \E r \in Roots :
         /\ input = [family |-> r.family, words |-> r.words, recovery |-> r.recovery]
         /\ ast = r.node
    /\ bytes = [data |-> NullPtr, size |-> 0]
    /\ pc = "root"

\* the caller holds a buffer of its own
InitBuffer ==
    /\ Fresh
    /\ \E b \in CallerBuffers : bytes = [data |-> Ptr(b), size |-> Len(b)]
    /\ input = [family |-> "buffer", words |-> << >>, recovery |-> TRUE]
    /\ ast = Null
    /\ pc = "bytes"

Init == InitRoot \/ InitBuffer

CreateMetadata ==
    /\ pc = "root"
    /\ metadata' = Ptr(ast_create_metadata(ast))
    /\ pc' = "classified"
    /\ UNCHANGED << buffer, ctx, calls, lexer, tokens, input, parser, ast, serialized, bytes, loaded, verified, extracted >>

\* ast_serialize(ast, m) for one of the pointers ms the caller may pass
SerializeWith(ms) ==
    /\ pc = "classified"
    /\ \E m \in ms :
       \E r \in {ast_serialize(ast, m)} :
         /\ metadata' = m
         /\ serialized' = r.ast
         /\ pc' = IF r.crashed THEN "crashed" ELSE "serialized"
    /\ UNCHANGED << buffer, ctx, calls, lexer, tokens, input, parser, ast, bytes, loaded, verified, extracted >>

\* the caller passes the classifier's record, one of its own, or NULL
Serialize == SerializeWith({ metadata, NullPtr } \cup { Ptr(x) : x \in CallerMetadata })

\* the caller passes the classifier's record, as the command-line tool does
SerializeClassified == SerializeWith({ metadata })

GetData ==
    /\ pc = "serialized"
    /\ bytes' = ast_get_data(serialized)
    /\ pc' = "bytes"
    /\ UNCHANGED << buffer, ctx, calls, lexer, tokens, input, parser, ast, metadata, serialized, loaded, verified, extracted >>

\* one byte of the data region changes on the way
CorruptByte ==
    /\ pc = "bytes"
    /\ ~serialized.null
    /\ \E i \in (AST_HEADER_SIZE + 1)..bytes.size, d \in 1..MaxDelta :
         bytes' = [bytes EXCEPT !.data.v[i] = (@ + d) % 256]
    /\ pc' = "altered"
    /\ UNCHANGED << buffer, ctx, calls, lexer, tokens, input, parser, ast, metadata, serialized, loaded, verified, extracted >>

Deserialize ==
    /\ pc \in { "bytes", "altered" }
    /\ loaded' = ast_deserialize(bytes.data, bytes.size)
    /\ pc' = "loaded"
    /\ UNCHANGED << buffer, ctx, calls, lexer, tokens, input, parser, ast, metadata, serialized, bytes, verified, extracted >>

VerifyChecksum ==
    /\ pc = "loaded"
    /\ verified' = ast_verify_checksum(loaded)
    /\ pc' = "verified"
    /\ UNCHANGED << buffer, ctx, calls, lexer, tokens, input, parser, ast, metadata, serialized, bytes, loaded, extracted >>

ExtractMetadata ==
    /\ pc = "verified"
    /\ \E oob \in OobOutcomes :
       \E r \in {ast_extract_metadata(loaded, oob)} :
         /\ extracted' = r
         /\ pc' = IF r.crashed THEN "crashed" ELSE "done"
    /\ UNCHANGED << buffer, ctx, calls, lexer, tokens, input, parser, ast, metadata, serialized, bytes, loaded, verified >>

Next ==
    \/ CreateMetadata
    \/ Serialize
    \/ GetData
    \/ Deserialize
    \/ VerifyChecksum
    \/ ExtractMetadata

Spec == Init /\ [][Next]_vars

\* the same journey with a byte damaged between ast_get_data and
\* ast_deserialize
NextCorrupt ==
    \/ CreateMetadata
    \/ SerializeClassified
    \/ GetData
    \/ CorruptByte
    \/ Deserialize
    \/ VerifyChecksum

SpecCorrupt == InitRoot /\ [][NextCorrupt]_vars

(***************************************************************************)
(* Inputs of the parser: source texts, each parsed by a build with         *)
(* ENABLE_SYNC_RECOVERY defined (recovery) and by one without.             *)
(***************************************************************************)
BinaryOps == { "OR", "AND", "=", "!=", "<", "<=", ">", ">=", "+", "-", "*", "/", "%" }

UnaryOps == { "NOT", "-" }

AskHead == << "ASK", "t", "FOR", "x", "WHERE" >>

\* ASK <source> FOR <fields> with no clause or one of the three clauses
AskTexts ==
    { << "ASK", src, "FOR" >> \o fs \o cl :
        src \in { "users", "orders" },
        fs \in { << "name" >>, << "name", ",", "email" >>,
                 << "id", ",", "name", ",", "email" >> },
        cl \in { << >>, << "IF", "age", ">", "18" >>, << "WHEN", "age", ">", "18" >>,
                 << "WHERE", "age", ">", "18" >> } }

\* a op1 b op2 c
ChainTexts == { AskHead \o << "a", o1, "b", o2, "c" >> : o1 \in BinaryOps, o2 \in BinaryOps }

\* a unary operator before either operand of a binary operator, or before
\* another unary operator
UnaryTexts ==
    { AskHead \o << u, "a", o, "b" >> : u \in UnaryOps, o \in BinaryOps }
    \cup { AskHead \o << "a", o, u, "b" >> : u \in UnaryOps, o \in BinaryOps }
    \cup { AskHead \o << u1, u2, "a" >> : u1 \in UnaryOps, u2 \in UnaryOps }

\* a op1 ( b op2 c ) and ( a op1 b ) op2 c
ParenTexts ==
    { AskHead \o << "a", o1, "(", "b", o2, "c", ")" >> : o1 \in BinaryOps, o2 \in BinaryOps }
    \cup
    { AskHead \o << "(", "a", o1, "b", ")", o2, "c" >> : o1 \in BinaryOps, o2 \in BinaryOps }

\* statements with something missing or out of place
MalformedTexts ==
    { << "ASK", "FOR", "name" >>,
      << "ASK", "users", "name" >>,
      << "ASK", "users", "FOR" >>,
      << "ASK", "users", "FOR", "name", "WHERE" >>,
      << "ASK", "users", "FOR", "name", "WHERE", "a", "+" >>,
      << "ASK", "users", "FOR", "name", "LIMIT", "x" >>,
      << "ASK", "users", "FOR", "name", "WHERE", "f", "(", "a", ")" >>,
      << "ASK", "@", "FOR", "name" >>,
      << "ASK", "users", "FOR", "name", "WHERE", "status", "=", "\"open" >>,
      << "TELL", "users", "ADD", "\"open\"" >>,
      << "FIND" >>,
      << "SHOW", "name", "FROM", "users" >>,
      << "users" >>,
      << "@" >>,
      << >> }

\* statements written on more than one line
LineTexts ==
    { << "ASK", "users", "NL", "FOR", "name" >>,
      << "ASK", "users", "FOR", "name", ">>c", "NL", "WHERE", "age", ">", "18" >>,
      << "ASK", "users", "FOR", "name", "WHERE", "status", "=", "\"a NL b\"", "NL" >>,
      << "ASK", "users", "FOR", "name", "WHERE", "f", "NL", "(", "a", ")" >>,
      << "ASK", "users", "FOR", "name", "WHERE", "NL", "f", "(", "a", ")" >> }

\* age > 18 behind one of the words that may begin a condition
Conditions == { << kw, "age", ">", "18" >> : kw \in { "THAT", "WHEN", "WHERE", "WHICH", "IF" } }

\* FIND <items>, FIND <items> IN <source> and FIND IN <source>, bare or with
\* a condition
FindTexts ==
    { << "FIND" >> \o src \o cl :
        src \in { << "orders" >>, << "a", "IN", "orders" >>, << "IN", "orders" >> },
        cl \in { << >> } \cup Conditions }

\* SHOW and GET, with and without ME, of one to three fields
ShowTexts ==
    { << verb >> \o me \o fs \o << "FROM", "users" >> :
        verb \in { "SHOW", "GET" },
        me \in { << >>, << "ME" >> },
        fs \in { << "name" >>, << "name", ",", "email" >>,
                 << "id", ",", "name", ",", "email" >> } }

\* TELL <source> TO REMOVE, bare or with a condition
RemoveTexts == { << "TELL", "users", "TO", "REMOVE" >> \o cl : cl \in { << >> } \cup Conditions }

\* conditions that hold a function call
CallTexts ==
    { AskHead \o call :
        call \in { << "f", "(", ")" >>,
                   << "f", "(", "a", ")" >>,
                   << "f", "(", "a", ",", "b", ")" >>,
                   << "f", "(", "a", "+", "1", ",", "b", ")" >>,
                   << "f", "(", "n", "(", "a", ")", ")" >>,
                   << "a", ">", "f", "(", "b", ")" >> } }

\* the other actions of TELL and the other clauses of ASK
TellTexts ==
    { << "TELL", "users", "TO", "ADD", "\"open\"" >>,
      << "TELL", "users", "TO", "UPDATE", "age", "=", "18", ",", "name", "=", "\"open\"",
         "WHERE", "id", "=", "5" >>,
      << "TELL", "users", "TO", "CREATE", "id", ",", "name" >>,
      << "ASK", "users", "AND", "orders", "WHERE", "id", "=", "5", "FOR", "name" >>,
      << "ASK", "users", "FOR", "name", "GROUP", "BY", "age", "HAVING", "age", ">", "18" >>,
      << "ASK", "users", "FOR", "name", "ORDER", "BY", "age", "DESC", ",", "name",
         "LIMIT", "5" >> }

\* conditions in which an operator stands where an operand is expected: at
\* the start, or behind another operator
OperandTexts ==
    { AskHead \o << o, "a" >> : o \in BinaryOps }
    \cup { AskHead \o << "a", o1, o2, "b" >> : o1 \in { "+", "*" }, o2 \in BinaryOps }

ParseInputs ==
    { [family |-> "operand", words |-> ws, recovery |-> r] :
        ws \in OperandTexts, r \in BOOLEAN }
    \cup
    { [family |-> "find", words |-> ws, recovery |-> r] : ws \in FindTexts, r \in BOOLEAN }
    \cup
    { [family |-> "show", words |-> ws, recovery |-> r] : ws \in ShowTexts, r \in BOOLEAN }
    \cup
    { [family |-> "remove", words |-> ws, recovery |-> r] : ws \in RemoveTexts, r \in BOOLEAN }
    \cup
    { [family |-> "call", words |-> ws, recovery |-> r] : ws \in CallTexts, r \in BOOLEAN }
    \cup
    { [family |-> "tell", words |-> ws, recovery |-> r] : ws \in TellTexts, r \in BOOLEAN }
    \cup
    { [family |-> "ask", words |-> ws, recovery |-> r] : ws \in AskTexts, r \in BOOLEAN }
    \cup
    { [family |-> "chain", words |-> ws, recovery |-> r] : ws \in ChainTexts, r \in BOOLEAN }
    \cup
    { [family |-> "unary", words |-> ws, recovery |-> r] : ws \in UnaryTexts, r \in BOOLEAN }
    \cup
    { [family |-> "paren", words |-> ws, recovery |-> r] : ws \in ParenTexts, r \in BOOLEAN }
    \cup
    { [family |-> "malformed", words |-> ws, recovery |-> r] :
        ws \in MalformedTexts, r \in BOOLEAN }
    \cup
    { [family |-> "lines", words |-> ws, recovery |-> r] : ws \in LineTexts, r \in BOOLEAN }

\* the caller holds a source text
InitParse ==
    /\ Fresh
    /\ input \in ParseInputs
    /\ ast = Null
    /\ bytes = [data |-> NullPtr, size |-> 0]
    /\ pc = "start"

\* parser_init(&parser, &lexer) on the text
ParserInit ==
    /\ pc = "start"
    /\ parser' = Ptr(parser_init(lexer_init(Text(input.words)), input.recovery))
    /\ pc' = "ready"
    /\ UNCHANGED << buffer, ctx, calls, lexer, tokens, input, ast, metadata, serialized, bytes, loaded, verified, extracted >>

\* parse_query(&parser); a call that dereferences NULL or never stops
\* recursing does not return
ParseQuery ==
    /\ pc = "ready"
    /\ \E r \in {parse_query(parser.v)} :
         /\ parser' = Ptr(r.p)
         /\ ast' = r.node
         /\ pc' = IF r.p.crashed \/ r.p.diverged THEN "crashed" ELSE "parsed"
    /\ UNCHANGED << buffer, ctx, calls, lexer, tokens, input, metadata, serialized, bytes, loaded, verified, extracted >>

NextParse ==
    \/ ParserInit
    \/ ParseQuery

SpecParse == InitParse /\ [][NextParse]_vars

(***************************************************************************)
(* A caller that takes the tokens of a source text itself, one             *)
(* lexer_next_token call at a time.  NL spells the newline character.      *)
(***************************************************************************)
Keywords ==
    { "ASK", "TELL", "FIND", "SHOW", "GET", "FOR", "FROM", "TO", "IF", "WHEN", "WHERE",
      "THAT", "WHICH", "GROUP", "BY", "SORT", "ORDER", "HAVING", "LIMIT", "AND", "OR",
      "NOT", "ADD", "REMOVE", "UPDATE", "CREATE", "WITH", "AS", "IN", "LIKE" }

Terminators == { "PLEASE", ";" }

\* words that begin with a keyword, or differ from one by a letter or by case
NearKeywords == { "ASKING", "ASK_1", "ORDERS", "BYE", "TOP", "WHN", "ask" }

\* string literals: closed, with the other quote inside, and never closed
StringWords ==
    { "\"open\"", "'it is \"ok\"'", "\"it's\"", "\"a NL b\"", "\"open", "'open", "'a\"",
      "'a NL b" }

\* characters that begin no token
ErrorWords == { "@", "!" }

LexTexts ==
    { << w >> : w \in Keywords \cup Terminators \cup NearKeywords \cup StringWords
                      \cup ErrorWords }
    \cup { << "a", w, "b" >> : w \in Keywords \cup Terminators \cup NearKeywords }
    \cup { << w, "NL", "b" >> : w \in StringWords \cup ErrorWords }
    \cup { << "a", "NL", "b" >>, << "a", ">>c", "NL", "b" >>, << "a", ">>c" >>,
           << "NL", "NL", "a" >>, << "a", "!=", "b" >>, << "a", ">", ">=", "3.14" >>,
           << "f", "NL", "(", "a", ")" >>, << >> }

\* the most tokens a caller takes from one text
MaxTokens == 8

InitLex ==
    /\ Fresh
    /\ \E ws \in LexTexts : input = [family |-> "lex", words |-> ws, recovery |-> TRUE]
    /\ ast = Null
    /\ bytes = [data |-> NullPtr, size |-> 0]
    /\ pc = "source"

\* lexer_init(&lexer, source)
LexerInit ==
    /\ pc = "source"
    /\ lexer' = Ptr(lexer_init(Text(input.words)))
    /\ pc' = "lexing"
    /\ UNCHANGED << buffer, ctx, calls, tokens, input, parser, ast, metadata, serialized, bytes, loaded,
                    verified, extracted >>

\* lexer_next_token(&lexer)
NextToken ==
    /\ pc = "lexing"
    /\ Len(tokens) < MaxTokens
    /\ \E r \in {lexer_next_token(lexer.v)} :
         /\ lexer' = Ptr(r.lexer)
         /\ tokens' = Append(tokens, r.token)
    /\ UNCHANGED << buffer, ctx, calls, input, pc, parser, ast, metadata, serialized, bytes, loaded,
                    verified, extracted >>

NextLex ==
    \/ LexerInit
    \/ NextToken

SpecLex == InitLex /\ [][NextLex]_vars

\* the caller initialises its lexer and goes on asking for tokens
SpecLexFair == SpecLex /\ WF_vars(NextLex)

(***************************************************************************)
(* The error reporter.  An ErrorContext is held with the reports malloc    *)
(* has handed out: report number a is at address a, and 0 is NULL.         *)
(***************************************************************************)
ERROR_NONE == 0

ERROR_WARNING == 1

ERROR_ERROR == 2

ERROR_FATAL == 3

ERROR_SOURCE_PARSER == 1

ErrorSeverity == { ERROR_NONE, ERROR_WARNING, ERROR_ERROR, ERROR_FATAL }

ErrorReport(severity, source, line, column, message) ==
    [severity |-> severity, source |-> source, line |-> line, column |-> column,
     message |-> message, next |-> 0]

error_context_init(reports) ==
    [reports |-> reports, first_error |-> 0, last_error |-> 0, error_count |-> 0,
     warning_count |-> 0, has_error |-> FALSE, has_fatal |-> FALSE]

\* a reporter that links the new report in front of the list
report_error_in_front(c, severity, source, line, column, message, alloc) ==
    IF c.null \/ message.null THEN [ctx |-> c, ret |-> FALSE]
    ELSE IF alloc # "ok" THEN [ctx |-> c, ret |-> FALSE]
    ELSE [ctx |-> Ptr([c.v EXCEPT
                  !.reports = Append(@, [ErrorReport(severity, source, line, column,
                                                     message.s)
                                         EXCEPT !.next = c.v.first_error]),
                  !.first_error = Len(c.v.reports) + 1,
                  !.last_error = IF @ = 0 THEN Len(c.v.reports) + 1 ELSE @,
                  !.warning_count = IF severity = ERROR_WARNING THEN @ + 1 ELSE @,
                  !.error_count = IF severity >= ERROR_ERROR THEN @ + 1 ELSE @,
                  !.has_error = IF severity >= ERROR_ERROR THEN TRUE ELSE @,
                  !.has_fatal = IF severity = ERROR_FATAL THEN TRUE ELSE @]),
          ret |-> TRUE]

\* alloc is what the allocator does in this call: "ok", or "malloc" or
\* "strdup" for the call that returns NULL
report_error(c, severity, source, line, column, message, alloc) ==
    IF c.null \/ message.null THEN [ctx |-> c, ret |-> FALSE]
    ELSE IF alloc = "malloc" THEN [ctx |-> c, ret |-> FALSE]
    ELSE IF alloc = "strdup" THEN [ctx |-> c, ret |-> FALSE]
    ELSE LET report == Len(c.v.reports) + 1
             linked == IF c.v.last_error # 0
                       THEN [c.v EXCEPT !.reports[c.v.last_error].next = report]
                       ELSE [c.v EXCEPT !.first_error = report]
             added == [linked EXCEPT
                          !.reports = Append(@, ErrorReport(severity, source, line, column,
                                                            message.s)),
                          !.last_error = report]
             counted == IF severity = ERROR_WARNING
                        THEN [added EXCEPT !.warning_count = @ + 1]
                        ELSE IF severity >= ERROR_ERROR
                        THEN [added EXCEPT !.error_count = @ + 1,
                                           !.has_error = TRUE,
                                           !.has_fatal = IF severity = ERROR_FATAL
                                                         THEN TRUE ELSE @]
                        ELSE added
         IN  [ctx |-> Ptr(counted), ret |-> TRUE]

(***************************************************************************)
(* A caller of the error reporter: it initialises a context and reports    *)
(* to it, or to no context, its n-th call naming line n.  calls holds, for *)
(* each call, whether ctx was NULL, the other arguments and the result.    *)
(***************************************************************************)
\* the most report_error calls on one context
MaxReports == 3

Messages == { NullStr, CStr(Spell["name"]) }

Allocations == { "ok", "malloc", "strdup" }

InitReport ==
    /\ Fresh
    /\ input = [family |-> "report", words |-> << >>, recovery |-> TRUE]
    /\ ast = Null
    /\ bytes = [data |-> NullPtr, size |-> 0]
    /\ pc = "report"

\* error_context_init(&ctx)
ErrorContextInit ==
    /\ pc = "report"
    /\ ctx = None
    /\ ctx' = Ptr(error_context_init(<< >>))
    /\ UNCHANGED << buffer, calls, lexer, tokens, input, pc, parser, ast, metadata, serialized,
                    bytes, loaded, verified, extracted >>

\* report_error(&ctx or NULL, severity, ERROR_SOURCE_PARSER, line, 1, message)
ReportError ==
    /\ pc = "report"
    /\ ctx # None
    /\ Len(calls) < MaxReports
    /\ \E c \in {NullPtr, ctx}, severity \in ErrorSeverity, message \in Messages,
          alloc \in Allocations :
         \E r \in {report_error(c, severity, ERROR_SOURCE_PARSER, Len(calls) + 1, 1,
                                message, alloc)} :
            /\ ctx' = IF c.null THEN ctx ELSE r.ctx
            /\ calls' = Append(calls, [ctx |-> c.null, severity |-> severity,
                                       line |-> Len(calls) + 1, message |-> message,
                                       ret |-> r.ret])
    /\ UNCHANGED << buffer, lexer, tokens, input, pc, parser, ast, metadata, serialized, bytes,
                    loaded, verified, extracted >>

NextReport ==
    \/ ErrorContextInit
    \/ ReportError

SpecReport == InitReport /\ [][NextReport]_vars

(***************************************************************************)
(* A caller of write_string: it writes one string into a fresh buffer, and *)
(* then once more behind it.  realloc is taken to succeed, so every write  *)
(* returns true.  The string and the buffer's bytes are held in runs: a    *)
(* sequence of [byte, run] standing for run copies of byte, one after the  *)
(* other, with no two neighbouring runs of the same byte.                  *)
(***************************************************************************)
\* strings of up to MaxShort characters, and of up to MaxOver characters
\* less or more than UINT16_MAX
MaxShort == 4

MaxOver == 2

\* the first character is the k-th letter after 'a' and the last one the
\* k-th before 'z', for k up to MaxMark; every character between is 'a'
MaxMark == 3

\* the most write_string calls on one buffer
MaxWrites == 2

RECURSIVE Unpack(_)
Unpack(runs) ==
    IF runs = << >> THEN << >>
    ELSE [i \in 1..runs[1].run |-> runs[1].byte] \o Unpack(Tail(runs))

RECURSIVE RunsFrom(_, _, _)
RunsFrom(b, starts, i) ==
    IF i > Len(b) THEN << >>
    ELSE The({ << [byte |-> b[i], run |-> j - i] >> \o RunsFrom(b, starts, j) :
               j \in { The({ x \in later : \A y \in later : x <= y })
                       : later \in {{ x \in starts : x > i } \cup {Len(b) + 1}} } })

Pack(bs) ==
    The({ RunsFrom(b, { i \in 1..Len(b) : i = 1 \/ b[i] # b[i - 1] }, 1) : b \in {bs} })

StringLengths == 0..MaxShort \cup (UINT16_MAX - MaxOver)..(UINT16_MAX + MaxOver)

Marked(n, k) ==
    IF n = 0 THEN << >>
    ELSE IF n = 1 THEN << [byte |-> 97 + k, run |-> 1] >>
    ELSE IF n = 2 THEN << [byte |-> 97 + k, run |-> 1], [byte |-> 122 - k, run |-> 1] >>
    ELSE << [byte |-> 97 + k, run |-> 1], [byte |-> 97, run |-> n - 2],
            [byte |-> 122 - k, run |-> 1] >>

StringInputs ==
    { [null |-> TRUE, runs |-> << >>] }
        \cup { [null |-> FALSE, runs |-> Marked(n, k)] :
               n \in StringLengths, k \in 1..MaxMark }

\* the string the caller passes
Str(runs) == IF runs.null THEN NullStr ELSE CStr(Unpack(runs.runs))

InitString ==
    /\ Fresh
    /\ \E str \in StringInputs :
         input = [family |-> "string", words |-> << >>, recovery |-> TRUE, str |-> str]
    /\ ast = Null
    /\ bytes = [data |-> NullPtr, size |-> 0]
    /\ pc = "string"

\* init_buffer(4096)
InitBufferCall ==
    /\ pc = "string"
    /\ buffer' = Ptr([runs |-> << >>, ok |-> TRUE, stderr |-> << >>, writes |-> 0])
    /\ pc' = "buffer"
    /\ UNCHANGED << ctx, calls, lexer, tokens, input, parser, ast, metadata, serialized, bytes,
                    loaded, verified, extracted >>

\* write_string(buf, str)
WriteString ==
    /\ pc = "buffer"
    /\ buffer.v.writes < MaxWrites
    /\ \E str \in {Str(input.str)} :
       \E b \in {write_string(Unpack(buffer.v.runs), str)} :
         buffer' = Ptr([runs |-> Pack(b),
                        ok |-> TRUE,
                        stderr |-> IF write_string_warns(str)
                                   THEN Append(buffer.v.stderr,
                                               "Warning: String too long, truncating to 65535 bytes")
                                   ELSE buffer.v.stderr,
                        writes |-> buffer.v.writes + 1])
    /\ UNCHANGED << ctx, calls, lexer, tokens, input, pc, parser, ast, metadata, serialized,
                    bytes, loaded, verified, extracted >>

NextString ==
    \/ InitBufferCall
    \/ WriteString

SpecString == InitString /\ [][NextString]_vars

(***************************************************************************)
(* Properties of the codec                                                 *)
(***************************************************************************)
\* the handle in loaded is the result of ast_deserialize(bytes)
Loaded == pc \in { "loaded", "verified", "done" }

\* the buffer in bytes is the one ast_get_data handed out, untouched
Untouched == ~serialized.null /\ bytes = [data |-> Ptr(serialized.v.data), size |-> serialized.v.size]

\* field-for-field equality of the record *metadata receives with M
SameMetadata(m, x) ==
    /\ x.hint_flags = m.hint_flags
    /\ x.priority = m.priority
    /\ x.engine_type = m.engine_type
    /\ x.estimated_rows = U32(m.estimated_rows)
    /\ x.timeout_ms = U32(m.timeout_ms)
    /\ x.target_index = m.target_index

\* C1: for every root T that ast_serialize accepts and every metadata record
\* M passed with it, loading the bytes of ast_serialize(T, M) gives a handle
\* with is_valid = true, and ast_extract_metadata on it returns true with
\* all six fields equal to those of M.
C1_RoundTrip ==
    (pc \in { "done", "crashed" } /\ Untouched /\ ~metadata.null)
        => /\ pc = "done"
           /\ ~loaded.null
           /\ loaded.v.is_valid
           /\ extracted.ok
           /\ SameMetadata(metadata.v, extracted.metadata.v)

\* the header fields of a buffer of at least 28 bytes, read independently
HdrMagicOk(d) == << d[1], d[2], d[3], d[4] >> = << 76, 81, 82, 78 >>

HdrVersionTooNew(d) == d[5] > 1 \/ d[6] > 0 \/ d[7] > 0 \/ d[8] > 0

HdrSizeOk(d) == \E n \in 0..Len(d) : Len(d) = 28 + n /\ << d[13], d[14], d[15], d[16] >> = U32(n)

Rejected(b) ==
    \/ b.data.null
    \/ b.size < 28
    \/ ~HdrMagicOk(b.data.v)
    \/ HdrVersionTooNew(b.data.v)
    \/ ~HdrSizeOk(b.data.v)

\* C2: ast_deserialize returns no object exactly when the buffer is shorter
\* than 28 bytes, or its magic is not the format's, or its version is above
\* the codec's, or its size is not 28 plus the data size in the header;
\* every other buffer gives an object.
C2_DeserializeChecks == Loaded => (loaded.null <=> Rejected(bytes))

\* a caller's buffer with the right magic and version and at least a header
\* is turned down for its declared size alone
C2_Witness ==
    /\ pc = "loaded"
    /\ input.family = "buffer"
    /\ bytes.size >= 28
    /\ HdrMagicOk(bytes.data.v)
    /\ ~HdrVersionTooNew(bytes.data.v)
    /\ loaded.null

\* CRC-32 (reflected, polynomial 0xEDB88320) computed bit by bit
RECURSIVE RefCrcBits(_, _)
RefCrcBits(c, k) ==
    IF k = 0 THEN c
    ELSE RefCrcBits(IF c[1] % 2 = 1 THEN Xor32(Shr1(c), << 32, 131, 184, 237 >>) ELSE Shr1(c),
                    k - 1)

RECURSIVE RefCrcRange(_, _, _, _)
RefCrcRange(d, lo, hi, c) ==
    IF Len(c) # 4 \/ lo > hi THEN c
    ELSE IF lo = hi THEN RefCrcBits(<< XorN(c[1], d[lo], 8), c[2], c[3], c[4] >>, 8)
    ELSE LET mid == (lo + hi) \div 2
         IN  RefCrcRange(d, mid + 1, hi, RefCrcRange(d, lo, mid, c))

RefCrc32(d, lo, hi) ==
    LET c == RefCrcRange(d, lo, hi, << 255, 255, 255, 255 >>)
    IN  << 255 - c[1], 255 - c[2], 255 - c[3], 255 - c[4] >>

\* the checksum in the header of a handle's data equals the CRC-32 of the
\* bytes after the header
ChecksumMatches(h) ==
    << h.data[21], h.data[22], h.data[23], h.data[24] >> = RefCrc32(h.data, 29, h.size)

\* C3: every handle returned by ast_serialize or ast_deserialize has
\* is_valid = true exactly when the checksum in its header equals the CRC-32
\* of the bytes after the header, ast_verify_checksum returns the same, and
\* a buffer that passes the header checks with another checksum is returned
\* as an object with is_valid = false.
C3_ValidIffChecksum ==
    /\ ~serialized.null => (serialized.v.is_valid <=> ChecksumMatches(serialized.v))
    /\ ~loaded.null => (loaded.v.is_valid <=> ChecksumMatches(loaded.v))
    /\ (pc \in { "verified", "done" } /\ ~loaded.null) => (verified <=> loaded.v.is_valid)
    /\ (Loaded /\ ~Rejected(bytes) /\ ~ChecksumMatches([data |-> bytes.data.v, size |-> bytes.size]))
          => (~loaded.null /\ ~loaded.v.is_valid)

\* a caller's buffer passes the header checks with a checksum that is not
\* that of its payload, and comes back as an invalid object
C3_Witness ==
    /\ pc = "verified"
    /\ input.family = "buffer"
    /\ ~loaded.null
    /\ ~loaded.v.is_valid
    /\ ~verified

\* the bytes differ from those ast_serialize produced in exactly one place,
\* which belongs to the data region
OneDataByteChanged ==
    /\ ~serialized.null
    /\ ~bytes.data.null
    /\ bytes.size = serialized.v.size
    /\ \E i \in 29..bytes.size :
         /\ bytes.data.v[i] # serialized.v.data[i]
         /\ \A j \in 1..bytes.size : j # i => bytes.data.v[j] = serialized.v.data[j]

\* C4: when one byte of the data region of a buffer produced by
\* ast_serialize is replaced by another value and the header is left alone,
\* ast_verify_checksum on the loaded buffer returns false.
C4_ChecksumSensitivity == (pc = "verified" /\ OneDataByteChanged) => ~verified

C4_Witness == pc = "verified" /\ OneDataByteChanged /\ ~loaded.null /\ ~verified

(***************************************************************************)
(* Properties of the parser                                                *)
(***************************************************************************)
\* parser_init has returned
Primed == pc \in { "ready", "parsed", "crashed" }

\* parser_init or parse_query has just returned
Returned == pc \in { "ready", "parsed" }

C6_NoRecoveryClears ==
    (Returned /\ ~input.recovery) =>
        /\ ~parser.v.had_error
        /\ ~parser.v.panic_mode
        /\ \A i \in 1..Len(parser.v.sync_log) :
              /\ ~parser.v.sync_log[i].had_error
              /\ ~parser.v.sync_log[i].panic_mode
              /\ parser.v.sync_log[i].cursor_after = parser.v.sync_log[i].cursor_before
              /\ parser.v.sync_log[i].same_token

\* a statement parsed without recovery: errors were reported and the flag is
\* clear when parse_query returns
C6_Witness ==
    /\ pc = "parsed"
    /\ ~input.recovery
    /\ Len(parser.v.stderr) > 0
    /\ ~parser.v.had_error

\* C7: after the first error reported inside a statement no further report
\* is produced while the parser finishes that statement: one malformed
\* statement yields at most one reported error.
C7_OneReportPerStatement ==
    (Primed /\ \A i \in 1..Len(input.words) : input.words[i] \notin { "@", "\"open" })
        => Len(parser.v.stderr) <= 1

\* the words of an ASK text after FOR and before the clause keyword
RECURSIVE FieldWords(_, _)
FieldWords(ws, i) ==
    IF i > Len(ws) \/ ws[i] \in { "IF", "WHEN", "WHERE" } THEN << >>
    ELSE IF ws[i] = "," THEN FieldWords(ws, i + 1)
    ELSE << ws[i] >> \o FieldWords(ws, i + 1)

ClauseGiven(ws) == \E i \in 1..Len(ws) : ws[i] \in { "IF", "WHEN", "WHERE" }

\* the condition age > 18
IsAgeOver18(n) ==
    /\ n # Null
    /\ n.type = "NODE_BINARY_EXPR"
    /\ n.op = "TOKEN_GT"
    /\ n.left # Null /\ n.left.type = "NODE_IDENTIFIER" /\ n.left.name = Spell["age"]
    /\ n.right # Null /\ n.right.type = "NODE_LITERAL"
    /\ n.right.number_value = Num(18, << >>)

\* C8: a well-formed ASK <source> FOR <f1, ..., fn>, optionally followed by
\* IF, WHEN or WHERE and an expression, parses to an ASK node with that
\* source, exactly the n fields in source order, the parsed expression as
\* condition when a clause is given and none otherwise, and had_error false.
C8_AskShape ==
    (pc = "parsed" /\ input.family = "ask") =>
        /\ ~parser.v.had_error
        /\ Len(parser.v.stderr) = 0
        /\ ast # Null
        /\ ast.type = "NODE_ASK_QUERY"
        /\ ast.source # Null
        /\ ast.source.identifier.name = Spell[input.words[2]]
        /\ ast.fields # Null
        /\ Len(ast.fields.fields) = Len(FieldWords(input.words, 4))
        /\ \A i \in 1..Len(ast.fields.fields) :
              ast.fields.fields[i].name = Spell[FieldWords(input.words, 4)[i]]
        /\ IF ClauseGiven(input.words) THEN IsAgeOver18(ast.condition)
           ELSE ast.condition = Null

\* the token type of an operator word
OpToken(w) ==
    CASE w = "OR" -> "TOKEN_OR" [] w = "AND" -> "TOKEN_AND"
      [] w = "=" -> "TOKEN_EQUAL" [] w = "!=" -> "TOKEN_NEQ"
      [] w = "<" -> "TOKEN_LT" [] w = "<=" -> "TOKEN_LTE"
      [] w = ">" -> "TOKEN_GT" [] w = ">=" -> "TOKEN_GTE"
      [] w = "+" -> "TOKEN_PLUS" [] w = "-" -> "TOKEN_MINUS"
      [] w = "*" -> "TOKEN_STAR" [] w = "/" -> "TOKEN_SLASH"
      [] w = "%" -> "TOKEN_PERCENT" [] w = "NOT" -> "TOKEN_NOT"

\* the precedence level of a binary operator word, loosest first
Level(w) ==
    CASE w = "OR" -> 1
      [] w = "AND" -> 2
      [] w \in { "=", "!=" } -> 3
      [] w \in { "<", "<=", ">", ">=" } -> 4
      [] w \in { "+", "-" } -> 5
      [] w \in { "*", "/", "%" } -> 6

\* expression shapes: what an expression tree is, apart from line numbers
Id(w) == [k |-> "id", name |-> Spell[w]]

Bin(w, l, r) == [k |-> "bin", op |-> OpToken(w), l |-> l, r |-> r]

Un(w, x) == [k |-> "un", op |-> OpToken(w), x |-> x]

RECURSIVE Shape(_)
Shape(n) ==
    IF n = Null THEN [k |-> "none"]
    ELSE CASE n.type = "NODE_BINARY_EXPR" ->
                [k |-> "bin", op |-> n.op, l |-> Shape(n.left), r |-> Shape(n.right)]
           [] n.type = "NODE_UNARY_EXPR" -> [k |-> "un", op |-> n.op, x |-> Shape(n.operand)]
           [] n.type = "NODE_IDENTIFIER" -> [k |-> "id", name |-> n.name]
           [] OTHER -> [k |-> "other"]

\* the tree the precedence table and left associativity give the expression
\* of a text of the chain, unary or paren family (the expression starts at
\* word 6)
ExpectedShape(family, ws) ==
    CASE family = "chain" ->
            IF Level(ws[9]) > Level(ws[7])
            THEN Bin(ws[7], Id(ws[6]), Bin(ws[9], Id(ws[8]), Id(ws[10])))
            ELSE Bin(ws[9], Bin(ws[7], Id(ws[6]), Id(ws[8])), Id(ws[10]))
      [] family = "unary" ->
            IF Len(ws) = 8 THEN Un(ws[6], Un(ws[7], Id(ws[8])))
            ELSE IF ws[6] = "a" THEN Bin(ws[7], Id(ws[6]), Un(ws[8], Id(ws[9])))
            ELSE Bin(ws[8], Un(ws[6], Id(ws[7])), Id(ws[9]))
      [] family = "paren" ->
            IF ws[6] = "("
            THEN Bin(ws[11], Bin(ws[8], Id(ws[7]), Id(ws[9])), Id(ws[12]))
            ELSE Bin(ws[7], Id(ws[6]), Bin(ws[10], Id(ws[9]), Id(ws[11])))

\* C9: binary operators bind by precedence OR < AND < equality < relational
\* < additive < multiplicative < unary < primary, every binary level is
\* left-associative, and only parentheses put a looser operator under a
\* tighter one.
C9_Precedence ==
    (pc = "parsed" /\ input.family \in { "chain", "unary", "paren" }) =>
        /\ ast # Null
        /\ ast.type = "NODE_ASK_QUERY"
        /\ Len(parser.v.stderr) = 0
        /\ Shape(ast.condition) = ExpectedShape(input.family, input.words)

\* a + b * c parsed as a + (b * c), and a * b + c as (a * b) + c
C9_Witness ==
    /\ pc = "parsed"
    /\ input.family = "chain"
    /\ \/ /\ input.words[7] = "+" /\ input.words[9] = "*"
          /\ Shape(ast.condition) = Bin("+", Id("a"), Bin("*", Id("b"), Id("c")))
       \/ /\ input.words[7] = "*" /\ input.words[9] = "+"
          /\ Shape(ast.condition) = Bin("+", Bin("*", Id("a"), Id("b")), Id("c"))

(***************************************************************************)
(* Properties of the classifier                                            *)
(***************************************************************************)
\* every bit of the hint is set in the flags
Carries(flags, hint) == AndN(flags, hint, 16) = hint

\* C10: ast_create_metadata follows the table: no root gives engine Auto,
\* priority 128, timeout 30000, no hints and 0 rows; FIND gives NoSQL with
\* READ_ONLY, PARALLEL_EXEC and FULL_SCAN, timeout 10000 and 10000 rows;
\* SHOW or GET gives NoSQL with CACHE_RESULT, priority 96 and 1000 rows; ASK
\* gives SQL with INDEX_SCAN and 100 rows when it has a condition, FULL_SCAN
\* and 1000 rows when it has none, and CACHE_RESULT when it has a LIMIT;
\* TELL gives SQL, priority 192, no hints and 1 row.
C10_MetadataTable ==
    pc = "classified" =>
        IF ast = Null
        THEN /\ metadata.v.engine_type = ENGINE_AUTO
             /\ metadata.v.priority = 128
             /\ metadata.v.timeout_ms = 30000
             /\ metadata.v.hint_flags = 0
             /\ metadata.v.estimated_rows = 0
        ELSE
        CASE ast.type = "NODE_FIND_QUERY" ->
                /\ metadata.v.engine_type = ENGINE_NOSQL
                /\ Carries(metadata.v.hint_flags, HINT_READ_ONLY)
                /\ Carries(metadata.v.hint_flags, HINT_PARALLEL_EXEC)
                /\ Carries(metadata.v.hint_flags, HINT_FULL_SCAN)
                /\ metadata.v.timeout_ms = 10000
                /\ metadata.v.estimated_rows = 10000
          [] ast.type \in { "NODE_SHOW_QUERY", "NODE_GET_QUERY" } ->
                /\ metadata.v.engine_type = ENGINE_NOSQL
                /\ Carries(metadata.v.hint_flags, HINT_CACHE_RESULT)
                /\ metadata.v.priority = 96
                /\ metadata.v.estimated_rows = 1000
          [] ast.type = "NODE_ASK_QUERY" ->
                /\ metadata.v.engine_type = ENGINE_SQL
                /\ IF ast.condition # Null
                   THEN Carries(metadata.v.hint_flags, HINT_INDEX_SCAN) /\ metadata.v.estimated_rows = 100
                   ELSE Carries(metadata.v.hint_flags, HINT_FULL_SCAN) /\ metadata.v.estimated_rows = 1000
                /\ ast.limit # Null => Carries(metadata.v.hint_flags, HINT_CACHE_RESULT)
          [] ast.type = "NODE_TELL_QUERY" ->
                /\ metadata.v.engine_type = ENGINE_SQL
                /\ metadata.v.priority = 192
                /\ metadata.v.hint_flags = 0
                /\ metadata.v.estimated_rows = 1
          [] OTHER -> TRUE

\* an ASK with a condition and a LIMIT has been classified
C10_Witness ==
    /\ pc = "classified"
    /\ ast # Null
    /\ ast.type = "NODE_ASK_QUERY"
    /\ ast.condition # Null
    /\ ast.limit # Null
    /\ metadata.v.estimated_rows = 100

\* C11: the hint flags are independent members of a bitset: a hint tests as
\* present in a classified record only if every bit of it was added; an ASK
\* with a condition carries INDEX_SCAN and not FULL_SCAN, and an ASK without
\* a condition carries FULL_SCAN and neither INDEX_SCAN nor PARALLEL_EXEC.
C11_HintsIndependent ==
    (pc = "classified" /\ ast # Null) =>
        /\ \A hint \in { HINT_PARALLEL_EXEC, HINT_INDEX_SCAN, HINT_FULL_SCAN,
                         HINT_CACHE_RESULT, HINT_PRIORITY_HIGH, HINT_PRIORITY_LOW,
                         HINT_READ_ONLY } :
              HasHint(metadata.v.hint_flags, hint) => Carries(metadata.v.hint_flags, hint)
        /\ ast.type = "NODE_ASK_QUERY" =>
              IF ast.condition # Null
              THEN /\ HasHint(metadata.v.hint_flags, HINT_INDEX_SCAN)
                   /\ ~HasHint(metadata.v.hint_flags, HINT_FULL_SCAN)
              ELSE /\ HasHint(metadata.v.hint_flags, HINT_FULL_SCAN)
                   /\ ~HasHint(metadata.v.hint_flags, HINT_INDEX_SCAN)
                   /\ ~HasHint(metadata.v.hint_flags, HINT_PARALLEL_EXEC)

(***************************************************************************)
(* Properties of the codec when the caller passes no metadata              *)
(***************************************************************************)
\* C12: when ast_serialize(T, NULL) is called, the trailer written is the
\* classifier's result for T: extracting the metadata from the loaded bytes
\* succeeds and gives the same record as ast_create_metadata(T).
C12_NullConsultsClassifier ==
    (pc = "done" /\ Untouched /\ metadata.null)
        => /\ extracted.ok
           /\ SameMetadata(ast_create_metadata(ast), extracted.metadata.v)

(***************************************************************************)
(* Properties of the lexer                                                 *)
(***************************************************************************)
\* the token kind of a keyword or terminator word
KeywordKind(w) ==
    CASE w = "ASK" -> "TOKEN_ASK" [] w = "TELL" -> "TOKEN_TELL" [] w = "FIND" -> "TOKEN_FIND"
      [] w = "SHOW" -> "TOKEN_SHOW" [] w = "GET" -> "TOKEN_GET" [] w = "FOR" -> "TOKEN_FOR"
      [] w = "FROM" -> "TOKEN_FROM" [] w = "TO" -> "TOKEN_TO" [] w = "IF" -> "TOKEN_IF"
      [] w = "WHEN" -> "TOKEN_WHEN" [] w = "WHERE" -> "TOKEN_WHERE"
      [] w = "THAT" -> "TOKEN_THAT" [] w = "WHICH" -> "TOKEN_WHICH"
      [] w = "GROUP" -> "TOKEN_GROUP" [] w = "BY" -> "TOKEN_BY" [] w = "SORT" -> "TOKEN_SORT"
      [] w = "ORDER" -> "TOKEN_ORDER" [] w = "HAVING" -> "TOKEN_HAVING"
      [] w = "LIMIT" -> "TOKEN_LIMIT" [] w = "AND" -> "TOKEN_AND" [] w = "OR" -> "TOKEN_OR"
      [] w = "NOT" -> "TOKEN_NOT" [] w = "ADD" -> "TOKEN_ADD" [] w = "REMOVE" -> "TOKEN_REMOVE"
      [] w = "UPDATE" -> "TOKEN_UPDATE" [] w = "CREATE" -> "TOKEN_CREATE"
      [] w = "WITH" -> "TOKEN_WITH" [] w = "AS" -> "TOKEN_AS" [] w = "IN" -> "TOKEN_IN"
      [] w = "LIKE" -> "TOKEN_LIKE"
      [] w \in Terminators -> "TOKEN_TERMINATOR"

\* the i-th word of the text has been returned as the i-th token
WordTaken(i) ==
    /\ pc = "lexing"
    /\ i <= Len(input.words)
    /\ i <= Len(tokens)
    /\ \A j \in 1..i : input.words[j] \notin { "NL", ">>c" }

\* the token covers exactly the i-th word
Covers(token, i) ==
    IF i = 1 THEN token.start = 0 /\ token.length = Len(Spell[input.words[1]])
    ELSE /\ token.start = Len(Text(SubSeq(input.words, 1, i - 1))) + 1
         /\ token.length = Len(Spell[input.words[i]])

\* C13: each word of the keyword set, when it is a whole lexeme, is returned
\* as its own keyword token kind and never as IDENTIFIER; PLEASE and ';' are
\* both returned as the statement terminator.
C13_KeywordsRecognised ==
    \A i \in 1..Len(tokens) :
        (WordTaken(i) /\ input.words[i] \in Keywords \cup Terminators)
            => /\ tokens[i].type = KeywordKind(input.words[i])
               /\ Covers(tokens[i], i)

\* the words made of letters, digits and underscores only
RunWords == Keywords \cup { "PLEASE" } \cup NearKeywords \cup { "a", "b" }

\* C14: a maximal run of letters, digits and underscores is returned as one
\* token, which is a keyword token only when the whole run is exactly a
\* keyword's upper-case spelling; a run that merely begins with a keyword
\* (ASKING, ASK_1, ORDERS, BYE, TOP) is a single IDENTIFIER token.
C14_MaximalMunch ==
    \A i \in 1..Len(tokens) :
        (WordTaken(i) /\ input.words[i] \in RunWords)
            => /\ Covers(tokens[i], i)
               /\ tokens[i].type # "TOKEN_IDENTIFIER"
                     => input.words[i] \in Keywords \cup { "PLEASE" }

\* the offsets after the first at which the text's first character occurs again
Closers(text) == { k \in 2..Len(text) : text[k] = text[1] }

\* C15: a string literal is closed only by the quote character that opened
\* it, the other quote character inside it being content; a literal whose
\* opening quote does not occur again before the end of input gives an Error
\* token with the message "Unterminated string." and no STRING token.
C15_StringQuotes ==
    (pc = "lexing" /\ Len(tokens) >= 1 /\ Len(input.words) >= 1
        /\ input.words[1] \in StringWords)
        => IF Closers(Text(input.words)) # {}
           THEN /\ tokens[1].type = "TOKEN_STRING"
                /\ tokens[1].start = 0
                /\ \A k \in Closers(Text(input.words)) : tokens[1].length <= k
                /\ tokens[1].length \in Closers(Text(input.words))
           ELSE /\ tokens[1].type = "TOKEN_ERROR"
                /\ tokens[1].msg = "Unterminated string."
                /\ \A i \in 2..Len(tokens) : tokens[i].type = "TOKEN_EOF"

\* 'it is "ok"' has come back as one STRING token of 12 characters
C15_Witness ==
    /\ pc = "lexing"
    /\ input.words = << "'it is \"ok\"'" >>
    /\ Len(tokens) = 2
    /\ tokens[1].type = "TOKEN_STRING"
    /\ tokens[1].length = 12
    /\ tokens[2].type = "TOKEN_EOF"

\* C16: every Error token lexer_next_token returns (for an unterminated
\* string, for an unrecognised character, and for a '!' not followed by '=')
\* carries a static diagnostic message as its text, never a span of the
\* source.
C16_ErrorTokensStatic ==
    \A i \in 1..Len(tokens) :
        tokens[i].type = "TOKEN_ERROR"
            => /\ tokens[i].msg \in { "Unterminated string.", "Unexpected character." }
               /\ tokens[i].start = -1
               /\ tokens[i].length = StaticLen(tokens[i].msg)

\* the token the last lexer_next_token call returned is EOF
AtEOF == pc = "lexing" /\ Len(tokens) > 0 /\ tokens[Len(tokens)].type = "TOKEN_EOF"

\* a lexer_next_token call: one that does not return EOF moves the cursor
\* forward, and one made after EOF returns EOF again and leaves the cursor
\* and the line counter where they were
LexCall ==
    Len(tokens') = Len(tokens) + 1 =>
        /\ tokens'[Len(tokens')].type # "TOKEN_EOF" => lexer'.v.current > lexer.v.current
        /\ AtEOF => /\ tokens'[Len(tokens')].type = "TOKEN_EOF"
                    /\ lexer'.v.current = lexer.v.current
                    /\ lexer'.v.line = lexer.v.line

\* C17: repeated lexer_next_token calls reach EOF after finitely many calls,
\* because every call that does not return EOF moves the cursor forward by
\* at least one character; every call after the first EOF returns EOF again
\* and leaves the cursor and the line counter unchanged.
C17_LexingReachesEOF == [][LexCall]_vars /\ <>AtEOF

\* two tokens, then EOF, then EOF again
C17_Witness ==
    /\ AtEOF
    /\ Len(tokens) >= 4
    /\ tokens[Len(tokens) - 1].type = "TOKEN_EOF"
    /\ tokens[Len(tokens) - 2].type # "TOKEN_EOF"
    /\ lexer.v.current = Len(lexer.v.source)

(***************************************************************************)
(* Properties of the cursor and the line counter                           *)
(***************************************************************************)
\* the number of newline characters before offset k of the source
NewlinesBefore(source, k) == Cardinality({ i \in 1..k : i <= Len(source) /\ source[i] = 10 })

\* the line counter is 1 plus the number of newlines before the cursor
LineCounted(l) == l.line = 1 + NewlinesBefore(l.source, l.current)

\* C18: at every point of a lex or parse, the lexer's line counter is 1 plus
\* the number of newline characters before the cursor, whether the newline
\* was in whitespace, ended a >> comment or was inside a string literal, and
\* each token is stamped with the counter's value when it is produced.
C18_LineCounter ==
    /\ pc = "lexing" =>
          /\ LineCounted(lexer.v)
          /\ Len(tokens) > 0 => tokens[Len(tokens)].line = lexer.v.line
    /\ Primed =>
          /\ LineCounted(parser.v.lexer)
          /\ parser.v.current.line = parser.v.lexer.line
          /\ \A r \in parser.v.rewinds :
                r.line = 1 + NewlinesBefore(parser.v.lexer.source, r.to)

\* C19: the lexer is a single forward pass: during a parse the lexer's
\* cursor never decreases, so no step of the parser moves it back to an
\* earlier source offset and no source character is scanned twice.
C19_CursorMonotone ==
    Primed =>
        /\ \A r \in parser.v.rewinds : r.to >= r.from
        /\ \A i \in 1..Len(parser.v.sync_log) :
              parser.v.sync_log[i].cursor_after >= parser.v.sync_log[i].cursor_before

\* C20: parse_query returns to its caller for every input, in both recovery
\* modes: no input, not even an identifier followed by '(' in an expression,
\* makes the parser loop or recurse without bound.
C20_ParseReturns == Primed => ~parser.v.diverged

(***************************************************************************)
(* Properties of serialization                                             *)
(***************************************************************************)
\* ast_serialize did not return: it read through a null pointer
SerializeCrashed == pc = "crashed" /\ serialized.null /\ loaded.null

\* C21: ast_serialize applied to any tree parse_query can return, including
\* the tree of erroneous input whose Source node has no identifier, returns
\* a SerializedAST or an explicit failure; it never reads through an absent
\* child.
C21_SerializeNeverReadsNull == input.family = "parsed" => ~SerializeCrashed

\* what a string of characters s is to be written as: its length, capped at
\* 65,535, low byte first, and that many of its first characters
Encoded(s) ==
    IF Len(s) > 65535 THEN << 255, 255 >> \o SubSeq(s, 1, 65535)
    ELSE << Len(s) % 256, Len(s) \div 256 >> \o SubSeq(s, 1, Len(s))

\* n copies of bs, one after the other
RECURSIVE Times(_, _)
Times(bs, n) == IF n = 0 THEN << >> ELSE bs \o Times(bs, n - 1)

\* C22: a string longer than 65,535 bytes is written as the length prefix
\* 65,535 followed by exactly its first 65,535 bytes, with a warning emitted
\* and the call succeeding; a string of at most 65,535 bytes is written with
\* its exact length and all its bytes.
C22_StringTruncation ==
    (pc = "buffer" /\ ~input.str.null /\ buffer.v.writes > 0) =>
        \E s \in {Unpack(input.str.runs)} :
            /\ buffer.v.ok
            /\ Unpack(buffer.v.runs) = Times(Encoded(s), buffer.v.writes)
            /\ Len(s) > 65535 => Len(buffer.v.stderr) = buffer.v.writes

\* a string of 65,537 characters has been written as 65,537 bytes, the last
\* of them 'a' and not the string's last character, with the warning
C22_Witness ==
    /\ pc = "buffer"
    /\ ~input.str.null
    /\ input.str.runs = << [byte |-> 98, run |-> 1], [byte |-> 97, run |-> 65535],
                           [byte |-> 121, run |-> 1] >>
    /\ buffer.v.writes = 1
    /\ buffer.v.runs = << [byte |-> 255, run |-> 2], [byte |-> 98, run |-> 1],
                          [byte |-> 97, run |-> 65534] >>
    /\ Len(buffer.v.stderr) = 1

\* the report_error calls that returned true, in the order they were made
Accepted == SelectSeq(calls, LAMBDA call : call.ret)

\* the reports reached from address a through next, at most n of them
RECURSIVE Linked(_, _, _)
Linked(reports, a, n) ==
    IF a = 0 \/ n = 0 THEN << >>
    ELSE << reports[a] >> \o Linked(reports, reports[a].next, n - 1)

CountOf(severities) == Cardinality({ i \in 1..Len(Accepted) : Accepted[i].severity \in severities })

\* C23: after any sequence of report_error calls on an initialised context
\* the reports are linked in arrival order, error_count is the number of
\* accepted reports of severity Error or Fatal, warning_count the number of
\* accepted Warnings, has_error holds iff error_count > 0 and has_fatal iff
\* some accepted report was Fatal; a call with no context or no message
\* returns false and changes nothing.
C23_ReportList ==
    (pc = "report" /\ ctx # None) =>
        \E c \in {ctx.v} : \E list \in {Linked(c.reports, c.first_error, Len(c.reports) + 1)} :
            /\ Len(c.reports) = Len(Accepted)
            /\ Len(list) = Len(Accepted)
            /\ \A i \in 1..Len(list) :
                  /\ list[i].severity = Accepted[i].severity
                  /\ list[i].line = Accepted[i].line
                  /\ list[i].message = Accepted[i].message.s
            /\ c.last_error = (IF list = << >> THEN 0 ELSE Len(c.reports))
            /\ list # << >> => list[Len(list)].next = 0
            /\ c.error_count = CountOf({ERROR_ERROR, ERROR_FATAL})
            /\ c.warning_count = CountOf({ERROR_WARNING})
            /\ c.has_error <=> c.error_count > 0
            /\ c.has_fatal <=> CountOf({ERROR_FATAL}) > 0
            /\ \A i \in 1..Len(calls) :
                  (calls[i].ctx \/ calls[i].message.null) => ~calls[i].ret

\* a Warning and then a Fatal report were accepted around a call that gave no
\* message
C23_Witness ==
    /\ pc = "report"
    /\ ctx # None
    /\ Len(calls) = 3
    /\ calls[1].ret /\ calls[1].severity = ERROR_WARNING
    /\ ~calls[2].ret /\ calls[2].message.null /\ ~calls[2].ctx
    /\ calls[3].ret /\ calls[3].severity = ERROR_FATAL
    /\ ctx.v.first_error = 1
    /\ ctx.v.last_error = 2
    /\ ctx.v.has_fatal

\* the addresses of the nodes reached from node through the pointers struct
\* Node declares, each as often as it is reached
RECURSIVE Reached(_)
RECURSIVE ReachedAll(_)
Reached(node) ==
    IF node = Null THEN << >> ELSE << node.addr >> \o ReachedAll(Referenced(node))

ReachedAll(nodes) ==
    IF nodes = << >> THEN << >> ELSE Reached(Head(nodes)) \o ReachedAll(Tail(nodes))

Once(addrs) == \A i, j \in 1..Len(addrs) : addrs[i] = addrs[j] => i = j

Range(addrs) == { addrs[i] : i \in 1..Len(addrs) }

\* C24: in every tree the parser returns each node is referenced by exactly
\* one parent, so free_node frees each node exactly once, none of them a node
\* the parser has freed already; so too after FIND ... IN has freed the first
\* source and after an identifier was re-read as a function call.
C24_SingleOwner ==
    (Returned /\ ast # Null) =>
        \E reached \in {Reached(ast)}, freed \in {free_node(ast)} :
            /\ Once(reached)
            /\ \A i \in 1..Len(reached) : reached[i] \in 1..parser.v.nodes
            /\ Once(freed)
            /\ Range(freed) = Range(reached)
            /\ Range(freed) \cap Range(parser.v.freed) = {}
            /\ Once(parser.v.freed)

\* a tree is returned that holds a function call made after the identifier
\* was read a second time, under a binary node
C24_Witness ==
    /\ Returned
    /\ ast # Null
    /\ parser.v.rewinds # {}
    /\ ast.type = "NODE_ASK_QUERY"
    /\ ast.condition.type = "NODE_BINARY_EXPR"
    /\ ast.condition.right.type = "NODE_FUNCTION_CALL"
    /\ parser.v.nodes = 8
    /\ Len(free_node(ast)) = 8

\* parse_query has been called on the text, whether or not it returned
Parsed == pc \in { "parsed", "crashed" }

\* the calls whose arguments are plain identifiers, with those arguments
DirectCalls ==
    { [text |-> << "f", "(", ")" >>, args |-> << >>],
      [text |-> << "f", "(", "a", ")" >>, args |-> << "a" >>],
      [text |-> << "f", "(", "a", ",", "b", ")" >>, args |-> << "a", "b" >>] }

IsIdentifier(node, word) == node.type = "NODE_IDENTIFIER" /\ node.name = Spell[word]

\* C25: an identifier immediately followed by '(' parses as a function call
\* node with the identifier as its name and one argument per comma-separated
\* expression (none for "()"), consumes the ')' and records no error.
C25_FunctionCall ==
    (Parsed /\ input.family = "call") =>
        /\ pc = "parsed"
        /\ ~parser.v.had_error
        /\ parser.v.current.type = "TOKEN_EOF"
        /\ \A call \in DirectCalls :
              input.words = AskHead \o call.text =>
                  /\ ast.condition.type = "NODE_FUNCTION_CALL"
                  /\ ast.condition.name = Spell["f"]
                  /\ Len(ast.condition.args) = Len(call.args)
                  /\ \A i \in 1..Len(call.args) :
                        IsIdentifier(ast.condition.args[i], call.args[i])

\* C26: FIND <items> IN <source> THAT <expr> parses without error to a FIND
\* node whose source is the one named after IN and whose condition is <expr>;
\* the same holds with WHERE, WHEN or WHICH in place of THAT.
C26_FindIn ==
    \A kw \in { "THAT", "WHERE", "WHEN", "WHICH" } :
        (Parsed /\ input.words = << "FIND", "a", "IN", "orders", kw, "age", ">", "18" >>) =>
            /\ pc = "parsed"
            /\ ~parser.v.had_error
            /\ ast.type = "NODE_FIND_QUERY"
            /\ ast.source.type = "NODE_SOURCE"
            /\ IsIdentifier(ast.source.identifier, "orders")
            /\ IsAgeOver18(ast.condition)

\* the fields a SHOW or GET text names: the words between the verb, or the ME
\* behind it, and FROM, commas left out
RECURSIVE ShownFields(_, _)
ShownFields(ws, i) ==
    IF i > Len(ws) \/ ws[i] = "FROM" THEN << >>
    ELSE IF ws[i] = "," THEN ShownFields(ws, i + 1)
    ELSE << ws[i] >> \o ShownFields(ws, i + 1)

\* C27: SHOW <f1, ..., fn> FROM <source>, and the same with GET, parse
\* without error to a query node whose field list holds all n fields in order
\* and whose source names <source>; a ME directly after the verb is optional
\* and is not one of the fields.
C27_ShowFields ==
    (Parsed /\ input.family = "show") =>
        \E fs \in {ShownFields(input.words, IF input.words[2] = "ME" THEN 3 ELSE 2)} :
            /\ pc = "parsed"
            /\ ~parser.v.had_error
            /\ ast.type \in { "NODE_SHOW_QUERY", "NODE_GET_QUERY" }
            /\ ast.fields.type = "NODE_FIELD_LIST"
            /\ Len(ast.fields.fields) = Len(fs)
            /\ \A i \in 1..Len(fs) : IsIdentifier(ast.fields.fields[i], fs[i])
            /\ ast.source.type = "NODE_SOURCE"
            /\ IsIdentifier(ast.source.identifier, "users")

\* C28: in TELL <source> TO REMOVE the action's condition is absent when
\* nothing follows REMOVE and is the parsed expression when a WHEN, IF or
\* WHERE condition follows; both forms parse without recording an error.
C28_RemoveCondition ==
    (Parsed /\ input.family = "remove"
       /\ (Len(input.words) = 4 \/ input.words[5] \in { "WHEN", "IF", "WHERE" })) =>
        /\ pc = "parsed"
        /\ ~parser.v.had_error
        /\ ast.type = "NODE_TELL_QUERY"
        /\ ast.action.type = "NODE_REMOVE_ACTION"
        /\ IF Len(input.words) = 4 THEN ast.action.condition = Null
           ELSE IsAgeOver18(ast.action.condition)

\* C29: on any SerializedAST that ast_deserialize returned with is_valid set,
\* ast_extract_metadata reads only bytes inside the data region: its position
\* never falls below the start of the region, whatever the last two bytes
\* give for the string length and however short the region is.
C29_ReadsInsideData ==
    (pc \in { "done", "crashed" } /\ ~loaded.null /\ loaded.v.is_valid) =>
        /\ pc = "done"
        /\ extracted.pos >= 0

\* a binary node under node has no left operand
RECURSIVE AbsentLeft(_)
AbsentLeft(node) ==
    /\ node # Null
    /\ \/ node.type = "NODE_BINARY_EXPR" /\ node.left = Null
       \/ \E i \in 1..Len(Referenced(node)) : AbsentLeft(Referenced(node)[i])

\* C30: no parser step reads a field of an absent node, in either recovery
\* mode: whenever a binary level builds a binary node after matching an
\* operator its left operand is a real node, even when the preceding
\* parse_primary reported "Expected expression" and returned nothing.
C30_LeftOperandPresent ==
    Parsed => /\ ~parser.v.crashed
              /\ ~AbsentLeft(ast)

====
